---- MODULE Spec2Model ----
(***************************************************************************)
(* Model of the recommendation-mixing core of src/app.py: the interleaver, *)
(* the standard recommender (recommend_from_favorites) and the niche       *)
(* bucket builder (build_recommendation_buckets).                          *)
(*                                                                         *)
(* Strings are sequences of one-character tokens, so that strip(), lower() *)
(* and the f-string formatting of labels are computed and not assumed.     *)
(* The token "--" stands for the em dash U+2014 of the label separator.    *)
(* Fixed texts of the program (placeholder labels, URL prefixes, genre     *)
(* names) are single tokens.                                               *)
(***************************************************************************)
EXTENDS Integers, Sequences, FiniteSets, TLC

VARIABLES
    pc,                 \* position of the running function
    il_lists, il_out,   \* _interleave_lists: argument and returned list
    favorites,          \* the favorites argument; rebound by the filter + strip()
    max_recs,           \* recommend_from_favorites: result cap
    track_pop_max, per_bucket, min_artists,  \* build_recommendation_buckets settings
    regen_nonce,        \* the caller's regenerate counter
    market,             \* market code argument
    date_key,           \* datetime.utcnow() as YYYYMMDD at the call
    hash_seed,          \* the process's string hash seed (decides set order)
    live,               \* the phase in which the catalog answers (see CatalogAnswers)
    rng,                \* state of rng = random.Random(regen_nonce or 0)
    fav_keys,           \* {(t.lower(), a.lower())}
    artist_infos,       \* resolved (aid, aname, genres), in input order
    idx,                \* loop position (favorite, artist or genre index)
    per_artist_fav,     \* one list per resolved artist: own top tracks
    per_artist_related, \* one list per resolved artist: related tracks
    mixed,              \* merged candidates
    mixed_shuffled,     \* after _stable_shuffle
    recs,               \* value returned by recommend_from_favorites
    per_artist_hidden,  \* one list per resolved artist: hidden-gem tracks
    related_all,        \* (name, url, popularity) of the candidate artists
    genres_todo,        \* list(union_genres)[:5] of the running genre loop
    may_know, discover, \* the two labelled artist lists
    genre_pool,         \* list(genre_pool): the genre set in iteration order
    per_genre_track_lists, per_genre_lists,  \* songs / rising stars per genre
    buckets,            \* value returned by build_recommendation_buckets
    resp,               \* what the catalog answered in the last step
    res,                \* a running call of resolve_artist_robust
    client,             \* a SpotifyClient and the request it is serving
    ui,                 \* the form rows read by _collect_favorites_with_feedback
    shuf,               \* a call of _stable_shuffle: arguments and result
    now,                \* the clock read by datetime.utcnow()
    twin,               \* the call number and what the first call was given and returned
    world               \* the catalog, when its answers are fixed for two calls

ilVars == <<il_lists, il_out>>
inputVars == <<max_recs, track_pop_max, per_bucket, min_artists, regen_nonce,
               market, date_key, hash_seed, live>>
stdVars == <<per_artist_fav, per_artist_related, mixed, mixed_shuffled, recs>>
bkVars == <<per_artist_hidden, related_all, genres_todo, may_know, discover,
            genre_pool, per_genre_track_lists, per_genre_lists, buckets>>

sideVars == <<res, client, ui, shuf>>
callVars == <<now, twin, world>>

vars == <<pc, ilVars, inputVars, rng, favorites, fav_keys, artist_infos, idx,
          stdVars, bkVars, resp, sideVars, callVars>>

-----------------------------------------------------------------------------
(* Bounds of the model *)

MaxLists == 3       \* number of lists handed to _interleave_lists
MaxLen == 3         \* length of each of them
MaxFavs == 2        \* number of favorites passed to recommend_from_favorites
MaxBucketFavs == 1  \* number of favorites passed to build_recommendation_buckets
MaxTop == 2         \* tracks in the top-tracks answer for a resolved artist
MaxHiddenTop == 3   \* the same in the hidden-gems step
MaxRelTop == 1      \* tracks in the top-tracks answer for any other artist
MaxRel == 1         \* artists in one related-artists answer
MaxGenreRows == 1   \* artists in one genre-search answer
MaxRecs == 2        \* largest result cap tried
MaxNonce == 1       \* largest regenerate counter tried
MaxPerBucket == 3   \* largest "per_bucket" setting tried
MaxMinArtists == 2  \* largest "min_artists" setting tried
MaxHashSeed == 1    \* largest string hash seed tried

-----------------------------------------------------------------------------
(* Generic helpers *)

Min(a, b) == IF a < b THEN a ELSE b
Max(a, b) == IF a > b THEN a ELSE b

\* Python slice s[:n] for n >= 0
Take(s, n) == SubSeq(s, 1, Min(n, Len(s)))

SeqsUpTo(S, n) == UNION {[1..k -> S] : k \in 0..n}

RECURSIVE Flatten(_)
Flatten(ss) == IF ss = <<>> THEN <<>> ELSE Head(ss) \o Flatten(Tail(ss))

RECURSIVE SumLen(_)
SumLen(ss) == IF ss = <<>> THEN 0 ELSE Len(Head(ss)) + SumLen(Tail(ss))

Range(s) == {s[i] : i \in 1..Len(s)}

\* number of positions of s holding x
Count(s, x) == Cardinality({i \in 1..Len(s) : s[i] = x})

(* Pseudo-random numbers.  The Mersenne Twister of random.Random is replaced *)
(* by a linear congruential generator with 16 states; what is kept is that  *)
(* the generator is a state seeded once, that every draw advances it, and   *)
(* that shuffle() draws once per position (Fisher-Yates, from the end).     *)

\* random.Random(seed)
Random(seed) == seed % 16

RngNext(st) == (5 * st + 3) % 16

\* mutant: x[i] = x[j] without the exchange
RECURSIVE ShuffleFromOverwrite(_, _, _)
ShuffleFromOverwrite(x, i, st) ==
    IF i < 2 THEN [list |-> x, rng |-> st]
    ELSE LET st2 == RngNext(st)
             j == ((st2 \div 2) % i) + 1
         IN  ShuffleFromOverwrite([x EXCEPT ![i] = x[j]], i - 1, st2)

\* rng.shuffle(x): for i in reversed(range(1, len(x))): j = randbelow(i + 1); swap
RECURSIVE ShuffleFrom(_, _, _)
ShuffleFrom(x, i, st) ==
    IF i < 2 THEN [list |-> x, rng |-> st]
    ELSE LET st2 == RngNext(st)
             j == ((st2 \div 2) % i) + 1
         IN  ShuffleFrom([x EXCEPT ![i] = x[j], ![j] = x[i]], i - 1, st2)

shuffle(x, st) == ShuffleFrom(x, Len(x), st)

-----------------------------------------------------------------------------
(* Strings *)

LowerCh(c) == CASE c = "A" -> "a" [] c = "B" -> "b" [] c = "C" -> "c" [] OTHER -> c

\* str.lower()
Lower(s) == [i \in 1..Len(s) |-> LowerCh(s[i])]

RECURSIVE LStrip(_)
LStrip(s) == IF s # <<>> /\ Head(s) = " " THEN LStrip(Tail(s)) ELSE s

RECURSIVE RStrip(_)
RStrip(s) == IF s # <<>> /\ s[Len(s)] = " " THEN RStrip(SubSeq(s, 1, Len(s) - 1)) ELSE s

\* str.strip()
Strip(s) == RStrip(LStrip(s))

\* f"{tname} -- {pa_name}" (the separator is space, em dash, space)
TrackLabel(tname, pa_name) == tname \o <<" ", "--", " ">> \o pa_name

\* f"{name} ({g})"
GenreLabel(name, g) == name \o <<" ", "(">> \o g \o <<")">>

\* f"https://open.spotify.com/track/{tid}", .../artist/{aid}
TrackUrl(tid) == <<"https://open.spotify.com/track/">> \o tid
ArtistUrl(aid) == <<"https://open.spotify.com/artist/">> \o aid

\* mutant: a placeholder without label and link
BlankItem == << <<>>, <<>> >>

\* the placeholder items of lines 549, 628, 708, 849 and 869
ExploreSpotify == <<<<"Explore Spotify">>, <<"https://open.spotify.com/explore">>>>

DiscoverOnSpotify == <<<<"Discover on Spotify">>, <<"https://open.spotify.com/explore">>>>

-----------------------------------------------------------------------------
(* _interleave_lists *)

\* inner loop for one index i: every list that has an element at i gives it
RECURSIVE InterleaveRow(_, _)
InterleaveRow(lists, i) ==
    IF lists = <<>> THEN <<>>
    ELSE (IF i <= Len(Head(lists)) THEN <<Head(lists)[i]>> ELSE <<>>)
         \o InterleaveRow(Tail(lists), i)

\* max((len(lst) for lst in lists), default=0)
RECURSIVE MaxLenOf(_)
MaxLenOf(lists) ==
    IF lists = <<>> THEN 0 ELSE Max(Len(Head(lists)), MaxLenOf(Tail(lists)))

RECURSIVE InterleaveFrom(_, _, _)
InterleaveFrom(lists, i, max_len) ==
    IF i > max_len THEN <<>>
    ELSE InterleaveRow(lists, i) \o InterleaveFrom(lists, i + 1, max_len)

\* mutant: the lists one after the other instead of round-robin
InterleaveConcat(lists) == Flatten(lists)

\* mutant: the inner loop runs over the lists from the last to the first
RECURSIVE Reverse(_)
Reverse(s) == IF s = <<>> THEN <<>> ELSE Append(Reverse(Tail(s)), Head(s))

InterleaveBackwards(lists) == InterleaveFrom(Reverse(lists), 1, MaxLenOf(lists))

_interleave_lists(lists) == InterleaveFrom(lists, 1, MaxLenOf(lists))

-----------------------------------------------------------------------------
(* Catalog records and the answers the catalog can give *)

\* What one catalog request gives: the items of the answer, or it raises
\* (transport error, HTTP error status).
Ok(items) == [ok |-> TRUE, items |-> items]
Fail == [ok |-> FALSE, items |-> <<>>]
Answers(lists) == {Ok(l) : l \in lists} \cup {Fail}

NoPop == -1             \* the record carries no "popularity" field

\* Track objects: id, name, artists[], external_urls.spotify, popularity
TrackUniverse ==
    { [id |-> <<"1">>, name |-> <<"a">>,
       artists |-> <<[id |-> <<"7">>, name |-> <<"b">>]>>,
       url |-> <<"u1">>, pop |-> 10],
      [id |-> <<"2">>, name |-> <<"A">>,
       artists |-> <<[id |-> <<"7">>, name |-> <<"B">>]>>,
       url |-> <<>>, pop |-> 80],
      [id |-> <<"3">>, name |-> <<"c">>, artists |-> <<>>,
       url |-> <<"u3">>, pop |-> NoPop] }

\* Artist objects: id, name, external_urls.spotify, popularity, genres[]
ArtistUniverse ==
    { [id |-> <<"8">>, name |-> <<"c">>, url |-> <<"ua">>, pop |-> 70,
       genres |-> << <<"pop">> >>],
      [id |-> <<"9">>, name |-> <<"B">>, url |-> <<>>, pop |-> NoPop,
       genres |-> <<>>],
      [id |-> <<>>, name |-> <<"c">>, url |-> <<>>, pop |-> 30,
       genres |-> <<>>] }

\* an artist record without id, name and url
NamelessArtist ==
    [id |-> <<>>, name |-> <<>>, url |-> <<>>, pop |-> NoPop, genres |-> <<>>]

\* one longer related-artists answer: three artists at or above popularity 60
PopularArtists ==
    << [id |-> <<"8">>, name |-> <<"c">>, url |-> <<"ua">>, pop |-> 70,
        genres |-> << <<"pop">> >>],
       [id |-> <<"4">>, name |-> <<"a">>, url |-> <<"u4">>, pop |-> 60,
        genres |-> <<>>],
       [id |-> <<"5">>, name |-> <<"a", "b">>, url |-> <<"u5">>, pop |-> 90,
        genres |-> << <<"rock">> >>] >>

TopLists == SeqsUpTo(TrackUniverse, MaxTop)
RelTopLists == SeqsUpTo(TrackUniverse, MaxRelTop)
RelatedLists == SeqsUpTo(ArtistUniverse, MaxRel) \cup {<<NamelessArtist>>}
GenreLists == SeqsUpTo(ArtistUniverse, MaxGenreRows)
BucketRelatedLists == RelatedLists \cup {PopularArtists}

\* (title, artist) pairs a caller can pass
FavPairs ==
    { << <<"A", " ">>, <<"b">> >>,
      << <<"c">>, <<"b">> >>,
      << <<>>, <<"b">> >> }

\* what resolve_artist_robust can return: None or (aid, aname, genres)
None == [none |-> TRUE, id |-> <<>>, name |-> <<>>, genres |-> <<>>]
ResolveResults ==
    { None,
      [none |-> FALSE, id |-> <<>>, name |-> <<"b">>, genres |-> <<>>],
      [none |-> FALSE, id |-> <<"7">>, name |-> <<"b">>,
       genres |-> << <<"indie">>, <<"pop">>, <<"rock">> >>],
      [none |-> FALSE, id |-> <<"6">>, name |-> <<"c">>, genres |-> <<>>] }

\* SpotifyClient.get_artist_top_tracks: items[:limit], or the request raises
get_artist_top_tracks(answer, limit) ==
    IF ~answer.ok THEN Fail ELSE Ok(Take(answer.items, limit))

\* top = sp.get_artist_top_tracks(..); if not top: top = sp_us.get_artist_top_tracks(..)
TopWithFallback(market_answer, us_answer, limit) ==
    LET top == get_artist_top_tracks(market_answer, limit)
    IN  IF ~top.ok THEN Fail
        ELSE IF top.items # <<>> THEN top
        ELSE get_artist_top_tracks(us_answer, limit)

\* every outcome of the two requests together
TopOutcomes10 ==
    {TopWithFallback(m, u, 10) : m \in Answers(TopLists), u \in Answers(TopLists)}
TopOutcomesHidden ==
    {TopWithFallback(m, u, 10) : m \in Answers(SeqsUpTo(TrackUniverse, MaxHiddenTop)),
                                 u \in Answers(SeqsUpTo(TrackUniverse, MaxHiddenTop))}
TopOutcomes5 ==
    {TopWithFallback(m, u, 5) : m \in Answers(RelTopLists), u \in Answers(RelTopLists)}

\* SpotifyClient.extract_track_core
extract_track_core(track) ==
    [tid    |-> track.id,
     tname  |-> track.name,
     a_id   |-> IF track.artists # <<>> THEN track.artists[1].id ELSE <<>>,
     a_name |-> IF track.artists # <<>> THEN track.artists[1].name ELSE <<>>,
     turl   |-> IF track.url # <<>> THEN track.url
                ELSE IF track.id # <<>> THEN TrackUrl(track.id) ELSE <<>>]

\* (ar.get("external_urls") or {}).get("spotify") or (artist link if id else "")
_artist_url(ar) ==
    IF ar.url # <<>> THEN ar.url
    ELSE IF ar.id # <<>> THEN ArtistUrl(ar.id) ELSE <<>>

\* (tname.strip().lower(), pa_name.strip().lower())
TrackKey(tname, pa_name) == <<Lower(Strip(tname)), Lower(Strip(pa_name))>>

-----------------------------------------------------------------------------
(* recommend_from_favorites *)

\* favorites = [(t.strip(), a.strip()) for (t, a) in favorites if t and a]
RECURSIVE FilterFavorites(_)
FilterFavorites(favs) ==
    IF favs = <<>> THEN <<>>
    ELSE LET t == Head(favs)[1]
             a == Head(favs)[2]
         IN  (IF t # <<>> /\ a # <<>> THEN << <<Strip(t), Strip(a)>> >> ELSE <<>>)
             \o FilterFavorites(Tail(favs))

\* fav_keys = {(t.lower(), a.lower()) for (t, a) in favorites}
FavKeys(favs) == {<<Lower(favs[i][1]), Lower(favs[i][2])>> : i \in 1..Len(favs)}

\* the resolved artists kept: "if resolved: ... if aid: append"
RECURSIVE KeepResolved(_)
KeepResolved(rs) ==
    IF rs = <<>> THEN <<>>
    ELSE (IF ~Head(rs).none /\ Head(rs).id # <<>> THEN <<Head(rs)>> ELSE <<>>)
         \o KeepResolved(Tail(rs))

\* lines 558-565: the candidate list built from one artist's own top tracks
RECURSIVE OwnTrackItems(_, _)
OwnTrackItems(top, keys) ==
    IF top = <<>> THEN <<>>
    ELSE LET c == extract_track_core(Head(top))
         IN  (IF c.tname = <<>> \/ c.a_name = <<>> THEN <<>>
              ELSE IF TrackKey(c.tname, c.a_name) \in keys THEN <<>>
              ELSE << <<TrackLabel(c.tname, c.a_name), c.turl>> >>)
             \o OwnTrackItems(Tail(top), keys)

\* lines 588-591: the items taken from one related artist's top tracks
RECURSIVE RelatedTrackItems(_)
RelatedTrackItems(rtop) ==
    IF rtop = <<>> THEN <<>>
    ELSE LET c == extract_track_core(Head(rtop))
         IN  (IF c.tname = <<>> \/ c.a_name = <<>> THEN <<>>
              ELSE << <<TrackLabel(c.tname, c.a_name), c.turl>> >>)
             \o RelatedTrackItems(Tail(rtop))

\* lines 577-593 for one picked related artist; rtop is its top-track outcome
RelatedArtistItems(ar, rtop) ==
    LET url_artist == IF ar.url # <<>> THEN ar.url ELSE ArtistUrl(ar.id)
    IN  IF ar.id = <<>> \/ ar.name = <<>> THEN <<>>
        ELSE IF ~rtop.ok THEN << <<ar.name, url_artist>> >>
        ELSE (IF rtop.items = <<>> THEN << <<ar.name, url_artist>> >> ELSE <<>>)
             \o RelatedTrackItems(rtop.items)

\* the loop "for ar in pick", rtops[i] being the outcome for pick[i]
RECURSIVE RelatedItems(_, _)
RelatedItems(pick, rtops) ==
    IF pick = <<>> THEN <<>>
    ELSE RelatedArtistItems(Head(pick), Head(rtops))
         \o RelatedItems(Tail(pick), Tail(rtops))

\* mutant: all of F, then all of R
MergeConcat(f, r) == f \o r

\* lines 599-605: one of F, one of R, until both are exhausted
RECURSIVE MergeFR(_, _)
MergeFR(f, r) ==
    IF f = <<>> /\ r = <<>> THEN <<>>
    ELSE (IF f # <<>> THEN <<Head(f)>> ELSE <<>>)
         \o (IF r # <<>> THEN <<Head(r)>> ELSE <<>>)
         \o MergeFR(IF f # <<>> THEN Tail(f) ELSE f, IF r # <<>> THEN Tail(r) ELSE r)

DefaultGenres ==
    << <<"indie">>, <<"electronic">>, <<"hip hop">>, <<"latin">>, <<"pop">> >>

\* lines 542-546 / 610-614: artists of one genre answer as "Name (genre)" items
RECURSIVE GenreArtistItems(_, _)
GenreArtistItems(rows, g) ==
    IF rows = <<>> THEN <<>>
    ELSE LET ar == Head(rows)
             url == _artist_url(ar)
         IN  (IF ar.name # <<>> /\ url # <<>>
              THEN << <<GenreLabel(ar.name, g), url>> >> ELSE <<>>)
             \o GenreArtistItems(Tail(rows), g)

\* mutant: no "break" at the cap
RECURSIVE DedupeNoCap(_, _, _, _)
DedupeNoCap(rest, seen, out, cap) ==
    IF rest = <<>> THEN out
    ELSE LET text == Head(rest)[1]
         IN  DedupeNoCap(Tail(rest), seen \cup {text},
                         IF text \notin seen THEN Append(out, Head(rest)) ELSE out,
                         cap)

\* lines 620-626: keep the first item of each text, stop once max_recs are kept
RECURSIVE DedupeLoop(_, _, _, _)
DedupeLoop(rest, seen, out, cap) ==
    IF rest = <<>> THEN out
    ELSE LET text == Head(rest)[1]
             out2 == IF text \notin seen THEN Append(out, Head(rest)) ELSE out
         IN  IF Len(out2) >= cap THEN out2
             ELSE DedupeLoop(Tail(rest), seen \cup {text}, out2, cap)

\* lines 620-629
StdResult(shuffled, cap) ==
    LET r == DedupeLoop(shuffled, {}, <<>>, cap)
    IN  IF r # <<>> THEN r
        ELSE IF shuffled # <<>> THEN Take(shuffled, cap)
        ELSE <<ExploreSpotify>>

\* mutant: the sample is returned without the cut
NoResolutionResultUncut(sample, cap) ==
    IF sample # <<>> THEN sample ELSE <<DiscoverOnSpotify>>

\* line 549
NoResolutionResult(sample, cap) ==
    IF sample # <<>> THEN Take(sample, cap) ELSE <<DiscoverOnSpotify>>

-----------------------------------------------------------------------------
(* build_recommendation_buckets *)

TrackPopMaxDefault == 35    \* default of the "track_pop_max" parameter
DefaultPopularity == 50     \* tr.get("popularity", 50), ar.get("popularity", 50)
KnownPopularity == 60       \* "if pop >= 60: may_know ... else: discover"
MinDiscover == 2            \* _ensure_min_discover(min_count=2)
GenreTrackBreak == 8        \* "if len(lst) >= 8: break"
GenreArtistBreak == 12      \* "if len(lst) >= 12: break"

Popularity(r) == IF r.pop = NoPop THEN DefaultPopularity ELSE r.pop

\* lines 687-694 (use_pop) and 696-702 (~use_pop): hidden-gem items of one
\* artist; only the external url counts, the lead artist defaults to aname
RECURSIVE HiddenScan(_, _, _, _)
HiddenScan(top, aname, ceiling, use_pop) ==
    IF top = <<>> THEN <<>>
    ELSE LET tr == Head(top)
             pa_name == IF tr.artists # <<>> THEN tr.artists[1].name ELSE aname
         IN  (IF tr.name # <<>> /\ tr.url # <<>>
                 /\ (use_pop => Popularity(tr) <= ceiling)
              THEN << <<TrackLabel(tr.name, pa_name), tr.url>> >> ELSE <<>>)
             \o HiddenScan(Tail(top), aname, ceiling, use_pop)

\* mutant: no fallback to the unfiltered tracks
HiddenListNoFallback(top, aname, ceiling) == HiddenScan(top, aname, ceiling, TRUE)

\* lines 687-702
HiddenList(top, aname, ceiling) ==
    LET lst == HiddenScan(top, aname, ceiling, TRUE)
    IN  IF lst # <<>> THEN lst ELSE HiddenScan(Take(top, 10), aname, ceiling, FALSE)

\* mutant: one item more than the cap
BucketCapLoose(n) == Max(2, n) + 1

\* max(2, per_bucket)
BucketCap(n) == Max(2, n)

\* max(per_bucket, min_artists)
RisingCap(n, m) == Max(n, m)

\* lines 706-709
HiddenBucket(lists, n) ==
    LET hidden_combined == _interleave_lists(lists)
    IN  Take(IF hidden_combined = <<>> THEN <<ExploreSpotify>> ELSE hidden_combined,
             BucketCap(n))

\* lines 720-725 / 738-742: (name, url, pop) of the artists with a name and a url
RECURSIVE RelatedRows(_)
RelatedRows(rel) ==
    IF rel = <<>> THEN <<>>
    ELSE LET ar == Head(rel)
             url == _artist_url(ar)
         IN  (IF ar.name # <<>> /\ url # <<>>
              THEN << <<ar.name, url, Popularity(ar)>> >> ELSE <<>>)
             \o RelatedRows(Tail(rel))

\* mutant: every row is labelled "may know"
LabelRowsAllKnown(rows, known) ==
    IF known THEN [i \in 1..Len(rows) |-> <<rows[i][1], rows[i][2]>>] ELSE <<>>

\* lines 757-759: the (name, url) of the rows on one side of the popularity line
RECURSIVE LabelRows(_, _)
LabelRows(rows, known) ==
    IF rows = <<>> THEN <<>>
    ELSE (IF (Head(rows)[3] >= KnownPopularity) = known
          THEN << <<Head(rows)[1], Head(rows)[2]>> >> ELSE <<>>)
         \o LabelRows(Tail(rows), known)

\* mutant: only the first item is kept
DedupeFromFirst(items, seen) == IF items = <<>> THEN <<>> ELSE <<Head(items)>>

\* lines 748-755
RECURSIVE DedupeFrom(_, _)
DedupeFrom(items, seen) ==
    IF items = <<>> THEN <<>>
    ELSE LET k == Lower(Strip(Head(items)[1]))
         IN  IF k # <<>> /\ k \notin seen
             THEN <<Head(items)>> \o DedupeFrom(Tail(items), seen \cup {k})
             ELSE DedupeFrom(Tail(items), seen)

_dedupe(items) == DedupeFrom(items, {})

Names(items) == {Lower(items[i][1]) : i \in 1..Len(items)}

\* fav_artist_names_lower = {a.lower() for (_, a) in favorites}
FavArtistNamesLower(favs) == {Lower(favs[i][2]) : i \in 1..Len(favs)}

\* fav_artist_ids = {aid for (aid, _, _) in fav_artist_infos}
FavArtistIds(infos) == {infos[i].id : i \in 1..Len(infos)}

\* mutant: the names already used are not looked at
RECURSIVE EnsureScanAnyName(_, _, _)
EnsureScanAnyName(items, disc, exclude_names) ==
    IF items = <<>> THEN disc
    ELSE LET ar == Head(items)
             name == Strip(ar.name)
             url == _artist_url(ar)
         IN  IF name = <<>> \/ url = <<>>
             THEN EnsureScanAnyName(Tail(items), disc, exclude_names)
             ELSE LET disc2 == Append(disc, <<name, url>>)
                  IN  IF Len(disc2) >= MinDiscover THEN disc2
                      ELSE EnsureScanAnyName(Tail(items), disc2, exclude_names)

\* lines 777-787: one genre answer scanned for new discover entries; the scan
\* (and the whole padding) ends when discover has min_count entries
RECURSIVE EnsureScan(_, _, _)
EnsureScan(items, disc, exclude_names) ==
    IF items = <<>> THEN disc
    ELSE LET ar == Head(items)
             name == Strip(ar.name)
             url == _artist_url(ar)
         IN  IF name = <<>> \/ url = <<>> \/ Lower(name) \in exclude_names
             THEN EnsureScan(Tail(items), disc, exclude_names)
             ELSE LET disc2 == Append(disc, <<name, url>>)
                  IN  IF Len(disc2) >= MinDiscover THEN disc2
                      ELSE EnsureScan(Tail(items), disc2,
                                      exclude_names \cup {Lower(name)})

ExploreArtists == <<<<"Explore artists">>, <<"https://open.spotify.com/genre">>>>

\* lines 794-799: the two artist buckets after the trim
MayKnowBucket(mk, disc, n) ==
    IF Take(mk, BucketCap(n)) = <<>> /\ Take(disc, BucketCap(n)) = <<>>
    THEN <<ExploreArtists>> ELSE Take(mk, BucketCap(n))

DiscoverBucket(disc, n) == Take(disc, BucketCap(n))

\* {g for (_aid, _aname, gs) in fav_artist_infos for g in (gs or [])}
UnionGenres(infos) == UNION {Range(infos[i].genres) : i \in 1..Len(infos)}

DefaultUnionGenres ==
    { <<"indie">>, <<"electronic">>, <<"hip hop">>, <<"pop">>, <<"latin">> }

DefaultGenrePool ==
    { <<"indie">>, <<"alternative">>, <<"singer-songwriter">>, <<"electronic">>,
      <<"hip hop">>, <<"afrobeats">>, <<"latin">> }

\* lines 731-733 / 770-772
UnionOrDefault(infos) ==
    IF UnionGenres(infos) = {} THEN DefaultUnionGenres ELSE UnionGenres(infos)

(* list(a_set): the order in which a set of strings is iterated is decided  *)
(* by the hashes of the strings, which depend on the hash seed of the       *)
(* process.  The model orders the genres by a fixed rank and rotates the    *)
(* order by the seed: one order per seed, the same for equal sets.          *)

GenreRank(g) ==
    CASE g = <<"indie">> -> 1 [] g = <<"pop">> -> 2 [] g = <<"rock">> -> 3
      [] g = <<"electronic">> -> 4 [] g = <<"hip hop">> -> 5
      [] g = <<"latin">> -> 6 [] g = <<"alternative">> -> 7
      [] g = <<"singer-songwriter">> -> 8 [] OTHER -> 9

RECURSIVE SortGenres(_)
SortGenres(S) ==
    IF S = {} THEN <<>>
    ELSE LET m == CHOOSE g \in S : \A h \in S : GenreRank(g) <= GenreRank(h)
         IN  <<m>> \o SortGenres(S \ {m})

SetOrder(S, seed) ==
    LET s == SortGenres(S)
        r == IF s = <<>> THEN 0 ELSE seed % Len(s)
    IN  SubSeq(s, r + 1, Len(s)) \o SubSeq(s, 1, r)

\* lines 636-638: the genres of the related artists of one answer
AnswerGenres(rel) == UNION {Range(rel[i].genres) \ {<<>>} : i \in 1..Len(rel)}

\* mutant: the tracks are not compared with the favorites
RECURSIVE SongTrackItemsUnfiltered(_, _, _)
SongTrackItemsUnfiltered(top, lst, keys) ==
    IF top = <<>> THEN lst
    ELSE LET c == extract_track_core(Head(top))
         IN  IF c.tname = <<>> \/ c.a_name = <<>> \/ c.turl = <<>>
             THEN SongTrackItemsUnfiltered(Tail(top), lst, keys)
             ELSE LET lst2 == Append(lst, <<TrackLabel(c.tname, c.a_name), c.turl>>)
                  IN  IF Len(lst2) >= GenreTrackBreak THEN lst2
                      ELSE SongTrackItemsUnfiltered(Tail(top), lst2, keys)

\* lines 830-839: the tracks of one artist appended to the list of the genre
RECURSIVE SongTrackItems(_, _, _)
SongTrackItems(top, lst, keys) ==
    IF top = <<>> THEN lst
    ELSE LET c == extract_track_core(Head(top))
         IN  IF c.tname = <<>> \/ c.a_name = <<>> \/ c.turl = <<>>
             THEN SongTrackItems(Tail(top), lst, keys)
             ELSE IF TrackKey(c.tname, c.a_name) \in keys
             THEN SongTrackItems(Tail(top), lst, keys)
             ELSE LET lst2 == Append(lst, <<TrackLabel(c.tname, c.a_name), c.turl>>)
                  IN  IF Len(lst2) >= GenreTrackBreak THEN lst2
                      ELSE SongTrackItems(Tail(top), lst2, keys)

\* lines 818-823: is this artist of the genre answer asked for top tracks
SongArtistUsed(ar, ids, names) ==
    /\ ar.id # <<>> /\ ar.name # <<>>
    /\ ar.id \notin ids
    /\ Lower(ar.name) \notin names

\* lines 817-843: the artists of one genre answer from position i on; tops[i] is
\* the top-track outcome of artist i, st the state of the shared generator
RECURSIVE SongsScan(_, _, _, _, _, _, _, _)
SongsScan(artists, tops, i, lst, st, ids, names, keys) ==
    IF i > Len(artists) THEN [lst |-> lst, rng |-> st]
    ELSE IF ~SongArtistUsed(artists[i], ids, names) \/ ~tops[i].ok
    THEN SongsScan(artists, tops, i + 1, lst, st, ids, names, keys)
    ELSE LET sh == shuffle(tops[i].items, st)
             lst2 == SongTrackItems(sh.list, lst, keys)
         IN  IF Len(lst2) >= GenreArtistBreak THEN [lst |-> lst2, rng |-> sh.rng]
             ELSE SongsScan(artists, tops, i + 1, lst2, sh.rng, ids, names, keys)

\* lines 847-850
SongsBucket(lists, n) ==
    LET genre_tracks_combined == _interleave_lists(lists)
    IN  Take(IF genre_tracks_combined = <<>> THEN <<DiscoverOnSpotify>>
             ELSE genre_tracks_combined, BucketCap(n))

\* lines 867-870
RisingBucket(lists, n, m) ==
    LET rising_combined == _interleave_lists(lists)
    IN  Take(IF rising_combined = <<>> THEN <<DiscoverOnSpotify>>
             ELSE rising_combined, RisingCap(n, m))

-----------------------------------------------------------------------------
(* _stable_shuffle *)

\* number of a token, for the stand-in of sha256
TokenCode(c) ==
    CASE c = "a" -> 1 [] c = "A" -> 2 [] c = "b" -> 3 [] c = "B" -> 4
      [] c = "c" -> 5 [] c = " " -> 6 [] c = "--" -> 7 [] c = "|" -> 8
      [] c = "0" -> 9 [] c = "1" -> 10 [] c = "2" -> 11 [] c = "3" -> 12
      [] c = "20260102" -> 14 [] c = "2100" -> 15 [] c = "0900" -> 0
      [] OTHER -> 13

\* int.from_bytes(hashlib.sha256(salt).digest(), "big"): a number that depends on
\* every token of the salt and on its position (a stand-in with 16 values)
RECURSIVE Sha256Int(_)
Sha256Int(salt) ==
    IF salt = <<>> THEN 7
    ELSE (3 * Sha256Int(SubSeq(salt, 1, Len(salt) - 1)) + TokenCode(salt[Len(salt)])) % 16

\* str(n) for the counters of the model
Digits(n) == CASE n = 0 -> <<"0">> [] n = 1 -> <<"1">> [] n = 2 -> <<"2">>
               [] n = 3 -> <<"3">> [] OTHER -> <<"9">>

\* '|'.join([t + '--' + a for (t, a) in favorites])
RECURSIVE JoinFavorites(_)
JoinFavorites(favs) ==
    IF favs = <<>> THEN <<>>
    ELSE (Head(favs)[1] \o <<"--">> \o Head(favs)[2])
         \o (IF Tail(favs) = <<>> THEN <<>> ELSE <<"|">> \o JoinFavorites(Tail(favs)))

\* line 618
Salt(mkt, date, favs, nonce) ==
    mkt \o <<"|">> \o date \o <<"|">> \o JoinFavorites(favs) \o <<"|">> \o Digits(nonce)

\* lines 512-517
_stable_shuffle(items, salt) == shuffle(items, Random(Sha256Int(salt))).list

-----------------------------------------------------------------------------
(* What the catalog did in the last step, kept for the properties below:   *)
(* the step, whether its first request answered, and for a step that asks  *)
(* for the top tracks of picked artists, which picks were valid and which  *)
(* of their requests answered.                                             *)

NoResp == [step |-> "none", ok |-> TRUE, picks |-> <<>>]
Resp(step, ok, picks) == [step |-> step, ok |-> ok, picks |-> picks]

\* for each pick: is it used (has id and name), did its request answer, and
\* the (rname, url_artist) entry of the pick
PickLog(pick, rtops) ==
    [i \in 1..Len(pick) |->
        [valid |-> pick[i].id # <<>> /\ pick[i].name # <<>>,
         ok |-> rtops[i].ok,
         bare |-> <<pick[i].name,
                    IF pick[i].url # <<>> THEN pick[i].url ELSE ArtistUrl(pick[i].id)>>]]

\* number of tracks of an answer that have a name, a lead artist and a url and
\* whose key is the key of a favorite
FavoriteTracks(top, keys) ==
    Cardinality({i \in 1..Len(top) :
        LET c == extract_track_core(top[i])
        IN  /\ c.tname # <<>> /\ c.a_name # <<>> /\ c.turl # <<>>
            /\ TrackKey(c.tname, c.a_name) \in keys})

\* for the artists of a genre answer in "Songs from your genres": is the artist
\* asked, did its request answer, and how many of its tracks are favorites
SongPickLog(artists, tops, ids, names, keys) ==
    [i \in 1..Len(artists) |->
        [valid |-> SongArtistUsed(artists[i], ids, names),
         ok |-> tops[i].ok,
         favorite_tracks |-> FavoriteTracks(tops[i].items, keys)]]

(* Exceptions.  A request that fails raises; the exception ends the function *)
(* unless the request runs inside a try block, whose handler goes on with    *)
(* the next artist or genre.  TryBlocks lists the requests that do.          *)

\* mutant: the top-track request for a picked related artist is not guarded
TryBlocksNoInner ==
    {"no_resolution", "own", "related", "backfill", "hidden", "bk_related",
     "bk_backfill", "ensure", "genre_backfill", "songs", "songs_top", "rising"}

\* the try blocks of lines 540, 553, 573, 581, 608, 634, 681, 717, 735, 774,
\* 814, 824 and 856
TryBlocks ==
    {"no_resolution", "own", "related", "rtop", "backfill", "hidden",
     "bk_related", "bk_backfill", "ensure", "genre_backfill", "songs",
     "songs_top", "rising"}

\* where the step goes on: to next, or out of the function with the exception
PcAfter(step, ok, next) == IF ok \/ step \in TryBlocks THEN next ELSE "raised"

\* the same for a step whose picks make requests of their own
PcAfterPicks(step, ok, inner, picks, next) ==
    IF ~ok /\ step \notin TryBlocks THEN "raised"
    ELSE IF inner \notin TryBlocks
            /\ \E i \in 1..Len(picks) : picks[i].valid /\ ~picks[i].ok
    THEN "raised"
    ELSE next

\* The catalog is reachable during the phase "live" of the bucket engine (or
\* during all of them) and every request outside that phase fails.
Phases == {"hidden", "artists", "songs", "rising"}
CatalogAnswers(up, phase, answers) ==
    IF \/ up \in {phase, "all"}
       \/ (up = "hidden+artists" /\ phase \in {"hidden", "artists"})
       \/ (up = "crowded" /\ phase = "songs")
    THEN answers ELSE {Fail}

\* A crowded genre: the genre search gives three artists, and an artist has
\* six top tracks (of which limit=5 keeps five) or its request fails.
SixTracks ==
    LET t1 == [id |-> <<"1">>, name |-> <<"a">>,
               artists |-> <<[id |-> <<"7">>, name |-> <<"b">>]>>,
               url |-> <<"u1">>, pop |-> 10]
        t2 == [id |-> <<"2">>, name |-> <<"A">>,
               artists |-> <<[id |-> <<"7">>, name |-> <<"B">>]>>,
               url |-> <<>>, pop |-> 80]
    IN  <<t1, t2, t1, t2, t1, t2>>
CrowdedTops ==
    {TopWithFallback(m, Fail, 5) : m \in Answers({SixTracks})}

\* the genre answers and the top-track outcomes of the phase of the songs
GenreListsOf(up) == IF up = "crowded" THEN {PopularArtists} ELSE GenreLists
SongTopsOf(up) == IF up = "crowded" THEN CrowdedTops ELSE TopOutcomes5

-----------------------------------------------------------------------------
(* Specification of _interleave_lists: the inputs are drawn, the function applied *)

IlItems == { << <<"x">>, <<"ux">> >>, << <<"y">>, <<"uy">> >> }

\* the example of the design document
IlExample ==
    << << << <<"a1">>, <<>> >>, << <<"a2">>, <<>> >> >>,
       << << <<"b1">>, <<>> >>, << <<"b2">>, <<>> >>, << <<"b3">>, <<>> >> >> >>

IlInputs == SeqsUpTo(SeqsUpTo(IlItems, MaxLen), MaxLists) \cup {IlExample}

NoBuckets == [hidden |-> <<>>, may_know |-> <<>>, discover |-> <<>>,
              songs |-> <<>>, rising |-> <<>>]

StdInputsIdle == max_recs = 0
BkInputsIdle ==
    /\ track_pop_max = 0 /\ per_bucket = 0 /\ min_artists = 0
    /\ hash_seed = 0 /\ live = "all"

StdIdle ==
    /\ per_artist_fav = <<>> /\ per_artist_related = <<>> /\ mixed = <<>>
    /\ mixed_shuffled = <<>> /\ recs = <<>>

BkIdle ==
    /\ per_artist_hidden = <<>> /\ related_all = <<>> /\ genres_todo = <<>>
    /\ may_know = <<>> /\ discover = <<>> /\ genre_pool = <<>>
    /\ per_genre_track_lists = <<>> /\ per_genre_lists = <<>>
    /\ buckets = NoBuckets

SideIdle == res = <<>> /\ client = <<>> /\ ui = <<>> /\ shuf = <<>>

\* one call, of which nothing is kept, and a catalog that answers as it likes
NoTwin == [call |-> 1, args |-> <<>>, now |-> <<>>, nonce |-> 0, recs |-> <<>>,
           buckets |-> NoBuckets]
NoWorld == [on |-> FALSE, resolve |-> None, top |-> Fail, rel |-> Fail,
            rtop |-> Fail, genre |-> Fail]
CallIdle == now = <<>> /\ twin = NoTwin /\ world = NoWorld

\* the answers the catalog can give to a request of the kind: the one answer
\* of the fixed catalog, or any of them
Asked(kind, answers) == IF world.on THEN {world[kind]} ELSE answers

EngineIdle ==
    /\ rng = 0 /\ fav_keys = {} /\ artist_infos = <<>> /\ idx = 0
    /\ resp = NoResp

InitInterleave ==
    /\ pc = "il_call"
    /\ il_lists \in IlInputs
    /\ il_out = <<>>
    /\ favorites = <<>> /\ regen_nonce = 0 /\ market = <<>> /\ date_key = <<>>
    /\ StdInputsIdle /\ BkInputsIdle /\ EngineIdle /\ SideIdle /\ StdIdle /\ BkIdle
    /\ CallIdle

InterleaveCall ==
    /\ pc = "il_call"
    /\ il_out' = _interleave_lists(il_lists)
    /\ pc' = "il_done"
    /\ UNCHANGED <<il_lists, inputVars, sideVars, callVars, rng, favorites, fav_keys, artist_infos,
                   idx, stdVars, bkVars, resp>>

NextInterleave == InterleaveCall

SpecInterleave == InitInterleave /\ [][NextInterleave]_vars

-----------------------------------------------------------------------------
(* Specification of recommend_from_favorites *)

Markets == { <<"US">> }

\* clock values (UTC date, time of day): two of one day and one of the next
Timestamps ==
    { <<"20260101", "0900">>, <<"20260101", "2100">>, <<"20260102", "0900">> }
FirstCall == <<"20260101", "0900">>

\* mutant: the time of day is part of the key
strftime_YmdHM(ts) == ts

\* datetime.utcnow().strftime("%Y%m%d")
strftime_Ymd(ts) == <<ts[1]>>

InitStd ==
    /\ pc = "std_start"
    /\ favorites \in SeqsUpTo(FavPairs, MaxFavs)
    /\ max_recs \in 0..MaxRecs
    /\ regen_nonce \in 0..MaxNonce
    /\ market \in Markets
    /\ now = FirstCall
    /\ date_key = strftime_Ymd(now)
    /\ twin = NoTwin /\ world = NoWorld
    /\ il_lists = <<>> /\ il_out = <<>>
    /\ BkInputsIdle /\ EngineIdle /\ SideIdle /\ StdIdle /\ BkIdle

\* lines 528-529
StdStart ==
    /\ pc = "std_start"
    /\ favorites' = FilterFavorites(favorites)
    /\ fav_keys' = FavKeys(favorites')
    /\ pc' = "resolve"
    /\ UNCHANGED <<ilVars, inputVars, sideVars, callVars, rng, artist_infos, idx, stdVars, bkVars, resp>>

\* lines 530-537: every favorite is resolved; the artists with an id are kept
StdResolve ==
    /\ pc = "resolve"
    /\ \E rs \in [1..Len(favorites) -> Asked("resolve", ResolveResults)] :
          /\ artist_infos' = KeepResolved(rs)
          /\ pc' = IF KeepResolved(rs) = <<>> THEN "no_resolution" ELSE "own"
    /\ idx' = 1
    /\ UNCHANGED <<ilVars, inputVars, sideVars, callVars, rng, favorites, fav_keys, stdVars, bkVars, resp>>

\* lines 538-549: one genre of the cross-genre sample; after the last one, return
StdNoResolution ==
    /\ pc = "no_resolution"
    /\ \E ans \in Asked("genre", Answers(GenreLists)) :
          LET rows == IF ans.ok
                      THEN GenreArtistItems(Take(ans.items, 3), DefaultGenres[idx])
                      ELSE <<>>
              sample == mixed \o rows
          IN  /\ mixed' = sample
              /\ resp' = Resp("no_resolution", ans.ok, <<>>)
              /\ IF idx < Len(DefaultGenres)
                 THEN /\ idx' = idx + 1
                      /\ pc' = PcAfter("no_resolution", ans.ok, pc)
                      /\ UNCHANGED recs
                 ELSE /\ recs' = NoResolutionResult(sample, max_recs)
                      /\ pc' = PcAfter("no_resolution", ans.ok, "std_done")
                      /\ UNCHANGED idx
    /\ UNCHANGED <<ilVars, inputVars, sideVars, callVars, rng, favorites, fav_keys, artist_infos,
                   per_artist_fav, per_artist_related, mixed_shuffled, bkVars>>

\* lines 551-569: the own top tracks of artist idx; after the last artist the
\* generator of the related-artist sampling is seeded
StdOwnTracks ==
    /\ pc = "own"
    /\ \E top \in Asked("top", TopOutcomes10) :
          /\ per_artist_fav' =
                Append(per_artist_fav,
                       IF top.ok THEN OwnTrackItems(top.items, fav_keys) ELSE <<>>)
          /\ resp' = Resp("own", top.ok, <<>>)
          /\ pc' = PcAfter("own", top.ok,
                           IF idx < Len(artist_infos) THEN pc ELSE "related")
    /\ IF idx < Len(artist_infos)
       THEN idx' = idx + 1 /\ UNCHANGED rng
       ELSE idx' = 1 /\ rng' = Random(regen_nonce)
    /\ UNCHANGED <<ilVars, inputVars, sideVars, callVars, favorites, fav_keys, artist_infos,
                   per_artist_related, mixed, mixed_shuffled, recs, bkVars>>

\* lines 571-596: the related artists of artist idx, shuffled, up to 3 picked,
\* and the top tracks of each pick
StdRelated ==
    /\ pc = "related"
    /\ \E rel \in Asked("rel", Answers(RelatedLists)) :
          LET next == IF idx < Len(artist_infos) THEN pc ELSE "merge"
          IN  IF ~rel.ok
              THEN /\ per_artist_related' = Append(per_artist_related, <<>>)
                   /\ resp' = Resp("related", FALSE, <<>>)
                   /\ pc' = PcAfter("related", FALSE, next)
                   /\ UNCHANGED rng
              ELSE LET sh == shuffle(rel.items, rng)
                       pick == Take(sh.list, 3)
                   IN  \E rtops \in [1..Len(pick) -> Asked("rtop", TopOutcomes5)] :
                          /\ per_artist_related' =
                                Append(per_artist_related, RelatedItems(pick, rtops))
                          /\ resp' = Resp("related", TRUE, PickLog(pick, rtops))
                          /\ pc' = PcAfterPicks("related", TRUE, "rtop",
                                                PickLog(pick, rtops), next)
                          /\ rng' = sh.rng
    /\ idx' = IF idx < Len(artist_infos) THEN idx + 1 ELSE 1
    /\ UNCHANGED <<ilVars, inputVars, sideVars, callVars, favorites, fav_keys, artist_infos,
                   per_artist_fav, mixed, mixed_shuffled, recs, bkVars>>

\* lines 597-606
StdMerge ==
    /\ pc = "merge"
    /\ mixed' = MergeFR(_interleave_lists(per_artist_fav),
                        _interleave_lists(per_artist_related))
    /\ pc' = IF mixed' = <<>> THEN "backfill" ELSE "finish"
    /\ UNCHANGED <<ilVars, inputVars, sideVars, callVars, rng, favorites, fav_keys, artist_infos, idx,
                   per_artist_fav, per_artist_related, mixed_shuffled, recs,
                   bkVars, resp>>

\* lines 607-616: one genre of the backfill
StdBackfill ==
    /\ pc = "backfill"
    /\ \E ans \in Asked("genre", Answers(GenreLists)) :
          /\ mixed' = mixed \o (IF ans.ok
                                THEN GenreArtistItems(Take(ans.items, 2), DefaultGenres[idx])
                                ELSE <<>>)
          /\ resp' = Resp("backfill", ans.ok, <<>>)
          /\ pc' = PcAfter("backfill", ans.ok,
                           IF idx < Len(DefaultGenres) THEN pc ELSE "finish")
    /\ idx' = IF idx < Len(DefaultGenres) THEN idx + 1 ELSE 1
    /\ UNCHANGED <<ilVars, inputVars, sideVars, callVars, rng, favorites, fav_keys, artist_infos,
                   per_artist_fav, per_artist_related, mixed_shuffled, recs, bkVars>>

\* lines 617-629: shuffle, de-duplicate, cut, return
StdFinish ==
    /\ pc = "finish"
    /\ mixed_shuffled' =
          _stable_shuffle(mixed, Salt(market, date_key, favorites, regen_nonce))
    /\ recs' = StdResult(mixed_shuffled', max_recs)
    /\ pc' = "std_done"
    /\ UNCHANGED <<ilVars, inputVars, sideVars, callVars, rng, favorites, fav_keys, artist_infos, idx,
                   per_artist_fav, per_artist_related, mixed, bkVars, resp>>

NextStd ==
    \/ StdStart
    \/ StdResolve
    \/ StdNoResolution
    \/ StdOwnTracks
    \/ StdRelated
    \/ StdMerge
    \/ StdBackfill
    \/ StdFinish

SpecStd == InitStd /\ [][NextStd]_vars

-----------------------------------------------------------------------------
(* Specification of build_recommendation_buckets *)

PopCeilings == {0, TrackPopMaxDefault}

InitBuckets ==
    /\ pc = "bk_start"
    /\ favorites \in SeqsUpTo(FavPairs, MaxBucketFavs)
    /\ track_pop_max \in PopCeilings
    /\ per_bucket \in {1, MaxPerBucket}
    /\ min_artists \in {0, MaxMinArtists}
    /\ regen_nonce \in 0..MaxNonce
    /\ hash_seed \in 0..MaxHashSeed
    /\ live \in Phases
    /\ market \in Markets
    /\ date_key = <<>>
    /\ CallIdle
    /\ il_lists = <<>> /\ il_out = <<>>
    /\ StdInputsIdle /\ EngineIdle /\ SideIdle /\ StdIdle /\ BkIdle

\* lines 654-657
BkStart ==
    /\ pc = "bk_start"
    /\ favorites' = FilterFavorites(favorites)
    /\ rng' = Random(regen_nonce)
    /\ fav_keys' = FavKeys(favorites')
    /\ pc' = "bk_resolve"
    /\ UNCHANGED <<ilVars, inputVars, sideVars, callVars, artist_infos, idx, stdVars, bkVars, resp>>

\* lines 660-667
BkResolve ==
    /\ pc = "bk_resolve"
    /\ \E rs \in [1..Len(favorites) -> Asked("resolve", ResolveResults)] :
          artist_infos' = KeepResolved(rs)
    /\ idx' = 1
    /\ pc' = "hidden"
    /\ UNCHANGED <<ilVars, inputVars, sideVars, callVars, rng, favorites, fav_keys, stdVars, bkVars, resp>>

\* lines 679-705: the hidden gems of artist idx
BkHidden ==
    /\ pc = "hidden"
    /\ idx <= Len(artist_infos)
    /\ \E top \in CatalogAnswers(live, "hidden", Asked("top", TopOutcomesHidden)) :
          LET sh == shuffle(top.items, rng)
              lst == IF top.ok
                     THEN HiddenList(sh.list, artist_infos[idx].name, track_pop_max)
                     ELSE <<>>
          IN  /\ per_artist_hidden' = Append(per_artist_hidden, lst)
              /\ rng' = IF top.ok THEN sh.rng ELSE rng
              /\ resp' = Resp("hidden", top.ok, sh.list)
              /\ pc' = PcAfter("hidden", top.ok, pc)
    /\ idx' = idx + 1
    /\ UNCHANGED <<ilVars, inputVars, sideVars, callVars, favorites, fav_keys, artist_infos, stdVars,
                   related_all, genres_todo, may_know, discover, genre_pool,
                   per_genre_track_lists, per_genre_lists, buckets>>

\* lines 706-709
BkHiddenEnd ==
    /\ pc = "hidden"
    /\ idx > Len(artist_infos)
    /\ buckets' = [buckets EXCEPT !.hidden = HiddenBucket(per_artist_hidden, per_bucket)]
    /\ idx' = 1
    /\ pc' = "bk_related"
    /\ UNCHANGED <<ilVars, inputVars, sideVars, callVars, rng, favorites, fav_keys, artist_infos, stdVars,
                   per_artist_hidden, related_all, genres_todo, may_know, discover,
                   genre_pool, per_genre_track_lists, per_genre_lists, resp>>

\* lines 716-727: the related artists of artist idx
BkRelated ==
    /\ pc = "bk_related"
    /\ idx <= Len(artist_infos)
    /\ \E rel \in CatalogAnswers(live, "artists", Asked("rel", Answers(BucketRelatedLists))) :
          LET sh == shuffle(rel.items, rng)
          IN  /\ related_all' = related_all \o RelatedRows(sh.list)
              /\ rng' = sh.rng
              /\ resp' = Resp("bk_related", rel.ok, <<>>)
              /\ pc' = PcAfter("bk_related", rel.ok, pc)
    /\ idx' = idx + 1
    /\ UNCHANGED <<ilVars, inputVars, sideVars, callVars, favorites, fav_keys, artist_infos, stdVars,
                   per_artist_hidden, genres_todo, may_know, discover, genre_pool,
                   per_genre_track_lists, per_genre_lists, buckets>>

\* lines 730-734: is the candidate list thin
BkRelatedEnd ==
    /\ pc = "bk_related"
    /\ idx > Len(artist_infos)
    /\ IF Len(related_all) < min_artists
       THEN /\ genres_todo' = Take(SetOrder(UnionOrDefault(artist_infos), hash_seed), 5)
            /\ pc' = "bk_backfill"
       ELSE /\ pc' = "label"
            /\ UNCHANGED genres_todo
    /\ idx' = 1
    /\ UNCHANGED <<ilVars, inputVars, sideVars, callVars, rng, favorites, fav_keys, artist_infos, stdVars,
                   per_artist_hidden, related_all, may_know, discover, genre_pool,
                   per_genre_track_lists, per_genre_lists, buckets, resp>>

\* lines 734-744: one genre of the backfill of the candidate list
BkBackfill ==
    /\ pc = "bk_backfill"
    /\ \E ans \in CatalogAnswers(live, "artists", Asked("genre", Answers(GenreLists))) :
          LET sh == shuffle(ans.items, rng)
          IN  /\ related_all' = related_all \o RelatedRows(Take(sh.list, 10))
              /\ rng' = sh.rng
              /\ resp' = Resp("bk_backfill", ans.ok, <<>>)
              /\ pc' = PcAfter("bk_backfill", ans.ok,
                               IF idx < Len(genres_todo) THEN pc ELSE "label")
    /\ idx' = IF idx < Len(genres_todo) THEN idx + 1 ELSE 1
    /\ UNCHANGED <<ilVars, inputVars, sideVars, callVars, favorites, fav_keys, artist_infos, stdVars,
                   per_artist_hidden, genres_todo, may_know, discover, genre_pool,
                   per_genre_track_lists, per_genre_lists, buckets>>

\* lines 757-772: labelling, de-duplication, and the test of _ensure_min_discover
BkLabel ==
    /\ pc = "label"
    /\ may_know' = _dedupe(LabelRows(related_all, TRUE))
    /\ discover' = _dedupe(LabelRows(related_all, FALSE))
    /\ IF Len(discover') >= MinDiscover
       THEN pc' = "trim" /\ UNCHANGED genres_todo
       ELSE /\ genres_todo' = Take(SetOrder(UnionOrDefault(artist_infos), hash_seed), 5)
            /\ pc' = "ensure"
    /\ idx' = 1
    /\ UNCHANGED <<ilVars, inputVars, sideVars, callVars, rng, favorites, fav_keys, artist_infos, stdVars,
                   per_artist_hidden, related_all, genre_pool,
                   per_genre_track_lists, per_genre_lists, buckets, resp>>

\* lines 773-789: one genre of the padding of "Discover"
BkEnsure ==
    /\ pc = "ensure"
    /\ \E ans \in CatalogAnswers(live, "artists", Asked("genre", Answers(GenreLists))) :
          LET sh == shuffle(ans.items, rng)
              exclude_names == FavArtistNamesLower(favorites) \cup Names(discover)
                               \cup Names(may_know)
              disc == EnsureScan(sh.list, discover, exclude_names)
          IN  /\ discover' = disc
              /\ rng' = sh.rng
              /\ resp' = Resp("ensure", ans.ok, <<>>)
              /\ pc' = PcAfter("ensure", ans.ok,
                               IF Len(disc) < MinDiscover /\ idx < Len(genres_todo)
                               THEN pc ELSE "trim")
              /\ idx' = IF Len(disc) < MinDiscover /\ idx < Len(genres_todo)
                        THEN idx + 1 ELSE 1
    /\ UNCHANGED <<ilVars, inputVars, sideVars, callVars, favorites, fav_keys, artist_infos, stdVars,
                   per_artist_hidden, related_all, genres_todo, may_know, genre_pool,
                   per_genre_track_lists, per_genre_lists, buckets>>

\* lines 794-809: the trim, the placeholder, and the genre pool
BkTrim ==
    /\ pc = "trim"
    /\ may_know' = MayKnowBucket(may_know, discover, per_bucket)
    /\ discover' = DiscoverBucket(discover, per_bucket)
    /\ buckets' = [buckets EXCEPT !.may_know = may_know', !.discover = discover']
    /\ IF UnionGenres(artist_infos) # {}
       THEN /\ genre_pool' = SetOrder(UnionGenres(artist_infos), hash_seed)
            /\ pc' = "songs"
       ELSE IF artist_infos = <<>>
       THEN /\ genre_pool' = SetOrder(DefaultGenrePool, hash_seed)
            /\ pc' = "songs"
       ELSE /\ genre_pool' = <<>>
            /\ pc' = "genre_backfill"
    /\ idx' = 1
    /\ UNCHANGED <<ilVars, inputVars, sideVars, callVars, rng, favorites, fav_keys, artist_infos, stdVars,
                   per_artist_hidden, related_all, genres_todo,
                   per_genre_track_lists, per_genre_lists, resp>>

\* lines 633-640 and 808-809: the genres of the related artists of artist idx
BkGenreBackfill ==
    /\ pc = "genre_backfill"
    /\ \E rel \in CatalogAnswers(live, "songs", Asked("rel", Answers(RelatedLists))) :
          LET genres == Range(genre_pool) \cup AnswerGenres(rel.items)
              last == idx >= Len(artist_infos)
          IN  /\ genre_pool' = SetOrder(IF last /\ genres = {} THEN DefaultGenrePool
                                        ELSE genres, hash_seed)
              /\ resp' = Resp("genre_backfill", rel.ok, <<>>)
              /\ pc' = PcAfter("genre_backfill", rel.ok, IF last THEN "songs" ELSE pc)
              /\ idx' = IF last THEN 1 ELSE idx + 1
    /\ UNCHANGED <<ilVars, inputVars, sideVars, callVars, rng, favorites, fav_keys, artist_infos, stdVars,
                   per_artist_hidden, related_all, genres_todo, may_know, discover,
                   per_genre_track_lists, per_genre_lists, buckets>>

\* lines 812-850: the songs of genre idx of list(genre_pool)[:3]
BkSongs ==
    /\ pc = "songs"
    /\ \E ans \in CatalogAnswers(live, "songs",
                                  Asked("genre", Answers(GenreListsOf(live)))) :
          LET sh == shuffle(ans.items, rng)
              ids == FavArtistIds(artist_infos)
              names == FavArtistNamesLower(favorites)
              last == idx >= Min(3, Len(genre_pool))
          IN  \E tops \in [1..Len(sh.list) -> CatalogAnswers(live, "songs", Asked("rtop", SongTopsOf(live)))] :
                 LET r == SongsScan(sh.list, tops, 1, <<>>, sh.rng, ids, names, fav_keys)
                     lists == Append(per_genre_track_lists, r.lst)
                     picks == SongPickLog(sh.list, tops, ids, names, fav_keys)
                 IN  /\ per_genre_track_lists' = lists
                     /\ rng' = r.rng
                     /\ resp' = Resp("songs", ans.ok, picks)
                     /\ buckets' = IF last
                                   THEN [buckets EXCEPT !.songs = SongsBucket(lists, per_bucket)]
                                   ELSE buckets
                     /\ pc' = PcAfterPicks("songs", ans.ok, "songs_top", picks,
                                           IF last THEN "rising" ELSE pc)
                     /\ idx' = IF last THEN 1 ELSE idx + 1
    /\ UNCHANGED <<ilVars, inputVars, sideVars, callVars, favorites, fav_keys, artist_infos, stdVars,
                   per_artist_hidden, related_all, genres_todo, may_know, discover,
                   genre_pool, per_genre_lists>>

\* lines 854-872: the rising stars of genre idx of list(genre_pool)[:3]
BkRising ==
    /\ pc = "rising"
    /\ \E ans \in CatalogAnswers(live, "rising", Asked("genre", Answers(GenreLists))) :
          LET sh == shuffle(ans.items, rng)
              last == idx >= Min(3, Len(genre_pool))
              lists == Append(per_genre_lists,
                              GenreArtistItems(Take(sh.list, 10), genre_pool[idx]))
          IN  /\ per_genre_lists' = lists
              /\ rng' = sh.rng
              /\ resp' = Resp("rising", ans.ok, <<>>)
              /\ buckets' = IF last
                            THEN [buckets EXCEPT
                                    !.rising = RisingBucket(lists, per_bucket, min_artists)]
                            ELSE buckets
              /\ pc' = PcAfter("rising", ans.ok, IF last THEN "bk_done" ELSE pc)
              /\ idx' = IF last THEN 1 ELSE idx + 1
    /\ UNCHANGED <<ilVars, inputVars, sideVars, callVars, favorites, fav_keys, artist_infos, stdVars,
                   per_artist_hidden, related_all, genres_todo, may_know, discover,
                   genre_pool, per_genre_track_lists>>

NextBuckets ==
    \/ BkStart
    \/ BkResolve
    \/ BkHidden
    \/ BkHiddenEnd
    \/ BkRelated
    \/ BkRelatedEnd
    \/ BkBackfill
    \/ BkLabel
    \/ BkEnsure
    \/ BkTrim
    \/ BkGenreBackfill
    \/ BkSongs
    \/ BkRising

SpecBuckets == InitBuckets /\ [][NextBuckets]_vars

-----------------------------------------------------------------------------
(* Both engine functions in one specification, for the properties that are *)
(* about both of them.                                                     *)

InitEngine == InitStd \/ InitBuckets

NextEngine == NextStd \/ NextBuckets

SpecEngine == InitEngine /\ [][NextEngine]_vars

-----------------------------------------------------------------------------
(* Properties of _interleave_lists *)

\* the (list, index) pairs of the elements of the input
IlPositions(lists) ==
    {p \in (1..Len(lists)) \X (1..MaxLenOf(lists)) : p[2] <= Len(lists[p[1]])}

\* where the round-robin order puts element i of list k: after every element
\* with a smaller index, and after the elements of index i of the lists before k
RoundRobinIndex(lists, k, i) ==
    1 + Cardinality({p \in IlPositions(lists) : p[2] < i \/ (p[2] = i /\ p[1] < k)})

\* C1: _interleave_lists returns the round-robin merge: element i of list k is
\* at the place the round-robin order gives it, the output has as many elements
\* as the input lists together and holds every element as often as they do,
\* [[a1,a2],[b1,b2,b3]] gives [a1,b1,a2,b2,b3], and no lists give no output.
C1_RoundRobinMerge ==
    pc = "il_done" =>
        /\ Len(il_out) = SumLen(il_lists)
        /\ \A p \in IlPositions(il_lists) :
              /\ RoundRobinIndex(il_lists, p[1], p[2]) \in 1..Len(il_out)
              /\ il_out[RoundRobinIndex(il_lists, p[1], p[2])] = il_lists[p[1]][p[2]]
        /\ \A x \in Range(il_out) \cup Range(Flatten(il_lists)) :
              Count(il_out, x) = Count(Flatten(il_lists), x)
        /\ (il_lists = IlExample =>
              il_out = << IlExample[1][1], IlExample[2][1], IlExample[1][2],
                          IlExample[2][2], IlExample[2][3] >>)
        /\ (il_lists = <<>> => il_out = <<>>)

\* the example of the design document has been merged
C1_Witness ==
    /\ pc = "il_done"
    /\ il_lists = IlExample
    /\ Len(il_out) = 5

\* the non-empty lists, in input order
RECURSIVE NonEmptyLists(_)
NonEmptyLists(lists) ==
    IF lists = <<>> THEN <<>>
    ELSE (IF Head(lists) # <<>> THEN <<Head(lists)>> ELSE <<>>)
         \o NonEmptyLists(Tail(lists))

\* every element replaced by its (list, index) pair
Tagged(lists) ==
    [k \in 1..Len(lists) |-> [i \in 1..Len(lists[k]) |-> <<k, i>>]]

\* C2: interleave fairness: with k non-empty input lists, the first k elements
\* of the output are the first elements of the non-empty lists in input order,
\* and (telling the elements apart by their origin) the second element of a list
\* comes only after the first element of every non-empty list.
C2_InterleaveFairness ==
    pc = "il_done" =>
        LET ne == NonEmptyLists(il_lists)
            tagged == _interleave_lists(Tagged(il_lists))
        IN  /\ Len(il_out) >= Len(ne)
            /\ \A j \in 1..Len(ne) : il_out[j] = ne[j][1]
            /\ \A q \in 1..Len(tagged) :
                  tagged[q][2] = 2 =>
                      \A k \in 1..Len(il_lists) :
                          il_lists[k] # <<>> =>
                              \E q1 \in 1..(q - 1) : tagged[q1] = <<k, 1>>

\* an empty list and two non-empty lists of different lengths have been merged
C2_Witness ==
    /\ pc = "il_done"
    /\ Len(il_lists) = 3
    /\ il_lists[1] = <<>>
    /\ il_lists[2] # <<>>
    /\ Len(il_lists[3]) > Len(il_lists[2])
    /\ il_lists[3][1] # il_lists[2][1]
    /\ il_out[1] = il_lists[2][1]
    /\ il_out[2] = il_lists[3][1]

-----------------------------------------------------------------------------
(* Properties of recommend_from_favorites *)

\* the lower-cased "t -- a" of the favorites
FavoriteLabels(favs) ==
    {Lower(TrackLabel(favs[i][1], favs[i][2])) : i \in 1..Len(favs)}

Labels(items) == {Lower(items[i][1]) : i \in 1..Len(items)}

\* C3: favorite exclusion in standard mode: no item returned by
\* recommend_from_favorites has a label that equals, case-insensitively, the
\* "t -- a" of a favorite, for the own top tracks and the related artists' tracks.
C3_StdExcludesFavorites ==
    pc = "std_done" => Labels(recs) \cap FavoriteLabels(favorites) = {}

\* C7 as stated: the returned list has at most max_recs items, for max_recs >= 0
C7_StdCapOriginal ==
    pc = "std_done" => Len(recs) <= max_recs

\* C7: the list returned by recommend_from_favorites has at most max_recs items
\* when max_recs >= 1, and at most one item when max_recs = 0 (the first
\* candidate on the resolved path, the placeholder on the placeholder paths).
C7_StdCap ==
    pc = "std_done" =>
        /\ max_recs >= 1 => Len(recs) <= max_recs
        /\ max_recs = 0 => Len(recs) <= 1

\* more distinct candidates than the cap, and the result is cut to the cap
C7_Witness ==
    /\ pc = "std_done"
    /\ max_recs >= 1
    /\ Cardinality({mixed_shuffled[i][1] : i \in 1..Len(mixed_shuffled)}) > max_recs
    /\ Len(recs) = max_recs

\* C9: standard-mode de-duplication: no two returned items have labels that are
\* equal case-insensitively, and the item kept for a label is the first one with
\* that label (case-insensitively) in the shuffled order.
C9_StdDedupCaseInsensitive ==
    pc = "std_done" /\ mixed_shuffled # <<>> =>
        /\ \A i, j \in 1..Len(recs) :
              i # j => Lower(recs[i][1]) # Lower(recs[j][1])
        /\ \A i \in 1..Len(recs) :
              \E q \in 1..Len(mixed_shuffled) :
                  /\ mixed_shuffled[q] = recs[i]
                  /\ \A q0 \in 1..(q - 1) :
                        Lower(mixed_shuffled[q0][1]) # Lower(recs[i][1])

-----------------------------------------------------------------------------
(* Properties of build_recommendation_buckets *)

\* C4: favorite exclusion in "Hidden gems from your favorite artists": no item
\* of the bucket has a label that equals, case-insensitively, the "t -- a" of a
\* favorite.
C4_HiddenExcludesFavorites ==
    pc = "bk_done" => Labels(buckets.hidden) \cap FavoriteLabels(favorites) = {}

\* C5: favorite exclusion in "Songs from your genres (not your input artists)":
\* no item of the bucket, and of the per-genre lists it is cut from, has a label
\* that equals, case-insensitively, the "t -- a" of a favorite.
C5_SongsExcludeFavorites ==
    /\ Labels(buckets.songs) \cap FavoriteLabels(favorites) = {}
    /\ \A g \in 1..Len(per_genre_track_lists) :
          Labels(per_genre_track_lists[g]) \cap FavoriteLabels(favorites) = {}

\* an artist of a genre answered with a track that is a favorite (and with
\* nothing else), and the list of the genre stayed empty
C5_Witness ==
    /\ resp.step = "songs"
    /\ resp.ok
    /\ favorites # <<>>
    /\ \E i \in 1..Len(resp.picks) :
          /\ resp.picks[i].valid /\ resp.picks[i].ok
          /\ resp.picks[i].favorite_tracks > 0
    /\ per_genre_track_lists[Len(per_genre_track_lists)] = <<>>

\* C6: at least one item per list: recommend_from_favorites returns at least one
\* item and each of the five buckets of build_recommendation_buckets holds at
\* least one item.
C6_EveryListNonEmpty ==
    /\ pc = "std_done" => recs # <<>>
    /\ pc = "bk_done" =>
          /\ buckets.hidden # <<>>
          /\ buckets.may_know # <<>>
          /\ buckets.discover # <<>>
          /\ buckets.songs # <<>>
          /\ buckets.rising # <<>>

\* C8: bucket caps: Hidden gems, Artists you may know, Discover and Songs from
\* your genres have at most max(2, per_bucket) items and Rising stars has at
\* most max(per_bucket, min_artists), for the settings the sliders allow
\* (per_bucket >= 1, min_artists >= 0).
C8_BucketCaps ==
    /\ Len(buckets.hidden) <= Max(2, per_bucket)
    /\ Len(buckets.may_know) <= Max(2, per_bucket)
    /\ Len(buckets.discover) <= Max(2, per_bucket)
    /\ Len(buckets.songs) <= Max(2, per_bucket)
    /\ Len(buckets.rising) <= Max(per_bucket, min_artists)

\* the hidden gems found are more than the cap and the bucket is cut to the cap
C8_Witness ==
    /\ pc = "bk_done"
    /\ SumLen(per_artist_hidden) > Max(2, per_bucket)
    /\ Len(buckets.hidden) = Max(2, per_bucket)

-----------------------------------------------------------------------------
(* Failing requests *)

Last(s) == s[Len(s)]

\* the (rname, url_artist) entries of the used picks whose request failed
RECURSIVE BareEntries(_)
BareEntries(picks) ==
    IF picks = <<>> THEN <<>>
    ELSE (IF Head(picks).valid /\ ~Head(picks).ok THEN <<Head(picks).bare>> ELSE <<>>)
         \o BareEntries(Tail(picks))

AllUsedPicksFailed(picks) ==
    /\ \E i \in 1..Len(picks) : picks[i].valid
    /\ \A i \in 1..Len(picks) : picks[i].valid => ~picks[i].ok

Returned == pc \in {"std_done", "bk_done"}

\* no exception leaves the function: every step goes on to the next step of
\* the function, up to the return, and the artist or genre it is about exists
NeverRaises ==
    /\ pc # "raised"
    /\ pc \in {"std_start", "resolve", "no_resolution", "own", "related", "merge",
               "backfill", "finish", "std_done", "bk_start", "bk_resolve",
               "hidden", "bk_related", "bk_backfill", "label", "ensure", "trim",
               "genre_backfill", "songs", "rising", "bk_done"}
    /\ pc \in {"no_resolution", "backfill"} => idx \in 1..Len(DefaultGenres)
    /\ pc \in {"own", "related", "genre_backfill"} => idx \in 1..Len(artist_infos)
    /\ pc \in {"hidden", "bk_related"} => idx \in 1..(Len(artist_infos) + 1)
    /\ pc \in {"bk_backfill", "ensure"} => idx \in 1..Len(genres_todo)
    /\ pc \in {"songs", "rising"} => idx \in 1..Min(3, Len(genre_pool))

\* a failing request for an artist or a genre gives that artist or genre an
\* empty list (where the step keeps one list per artist or genre)
FailedFetchGivesEmptyList ==
    /\ resp.step = "own" /\ ~resp.ok => Last(per_artist_fav) = <<>>
    /\ resp.step = "related" /\ ~resp.ok => Last(per_artist_related) = <<>>
    /\ resp.step = "hidden" /\ ~resp.ok => Last(per_artist_hidden) = <<>>
    /\ resp.step = "songs" /\ ~resp.ok => Last(per_genre_track_lists) = <<>>
    /\ resp.step = "songs" /\ resp.ok /\ AllUsedPicksFailed(resp.picks)
          => Last(per_genre_track_lists) = <<>>
    /\ resp.step = "rising" /\ ~resp.ok => Last(per_genre_lists) = <<>>

\* a failing request of a step that adds to a running list adds nothing to it
FailedFetchAddsNothing ==
    /\ pc \in {"no_resolution", "backfill"} /\ ~resp'.ok => mixed' = mixed
    /\ pc \in {"bk_related", "bk_backfill"} /\ resp'.step = pc /\ ~resp'.ok
          => related_all' = related_all
    /\ pc = "ensure" /\ ~resp'.ok => discover' = discover
    /\ pc = "genre_backfill" /\ ~resp'.ok
          => genre_pool' \in {genre_pool, SetOrder(DefaultGenrePool, hash_seed)}

\* C10 as stated: no function raises, whichever requests fail, and a failing
\* per-artist or per-genre request makes that artist or genre contribute
\* nothing, the top-track request for a picked related artist included.
C10_NoCrashOriginal ==
    /\ [](/\ NeverRaises
          /\ FailedFetchGivesEmptyList
          /\ (resp.step = "related" /\ resp.ok /\ AllUsedPicksFailed(resp.picks)
                 => Last(per_artist_related) = <<>>))
    /\ [][FailedFetchAddsNothing]_vars

\* C10: no function raises, whichever requests fail, and a failing per-artist
\* or per-genre request makes that artist or genre contribute nothing, except
\* that in recommend_from_favorites a picked related artist whose top-track
\* request fails contributes one item, its own (name, artist url).
C10_NoCrash ==
    /\ [](/\ NeverRaises
          /\ FailedFetchGivesEmptyList
          /\ (resp.step = "related" /\ resp.ok /\ AllUsedPicksFailed(resp.picks)
                 => Last(per_artist_related) = BareEntries(resp.picks)))
    /\ [][FailedFetchAddsNothing]_vars

\* nothing was collected for a resolved artist, the last request of the run
\* failed as well, and recommend_from_favorites returned the placeholder
C10_Witness ==
    /\ pc = "std_done"
    /\ artist_infos # <<>>
    /\ resp.step = "backfill" /\ ~resp.ok
    /\ \A i \in 1..Len(per_artist_fav) : per_artist_fav[i] = <<>>
    /\ mixed = <<>>
    /\ recs = <<ExploreSpotify>>

-----------------------------------------------------------------------------
(* Text normaliser and similarity scorer (lines 283-299)                   *)

\* unicodedata.normalize("NFKD") followed by dropping the combining marks:
\* the token "e'" stands for an accented e
NfkdCh(c) == IF c = "e'" THEN "e" ELSE c

\* re.sub(r"[^a-z0-9\s]", " ", s) for one character: "!" and the dash stand
\* for the characters outside the class
SubNonAlnumCh(c) == IF c \in {"!", "--", "|", "(", ")"} THEN " " ELSE c

\* re.sub(r"\s+", " ", s)
RECURSIVE Collapse(_)
Collapse(s) ==
    IF Len(s) < 2 THEN s
    ELSE IF s[1] = " " /\ s[2] = " " THEN Collapse(Tail(s))
    ELSE <<s[1]>> \o Collapse(Tail(s))

\* lines 292-299
_clean(s) ==
    Strip(Collapse([i \in 1..Len(s) |-> SubNonAlnumCh(LowerCh(NfkdCh(s[i])))]))

\* str.split(): the words of s; cur is the word being read
RECURSIVE SplitWords(_, _)
SplitWords(s, cur) ==
    IF s = <<>> THEN (IF cur = <<>> THEN <<>> ELSE <<cur>>)
    ELSE IF Head(s) = " "
         THEN (IF cur = <<>> THEN <<>> ELSE <<cur>>) \o SplitWords(Tail(s), <<>>)
         ELSE SplitWords(Tail(s), Append(cur, Head(s)))

split(s) == SplitWords(s, <<>>)

\* code point order of the characters that are left after _clean
CharRank(c) ==
    CASE c = "0" -> 0 [] c = "1" -> 1 [] c = "2" -> 2 [] c = "3" -> 3
      [] c = "a" -> 10 [] c = "b" -> 11 [] c = "c" -> 12 [] c = "e" -> 14
      [] OTHER -> 20

RECURSIVE WordLess(_, _)
WordLess(u, v) ==
    IF v = <<>> THEN FALSE
    ELSE IF u = <<>> THEN TRUE
    ELSE IF CharRank(Head(u)) # CharRank(Head(v))
         THEN CharRank(Head(u)) < CharRank(Head(v))
         ELSE WordLess(Tail(u), Tail(v))

RECURSIVE InsertWord(_, _)
InsertWord(w, ws) ==
    IF ws = <<>> THEN <<w>>
    ELSE IF WordLess(Head(ws), w) THEN <<Head(ws)>> \o InsertWord(w, Tail(ws))
    ELSE <<w>> \o ws

RECURSIVE SortWords(_)
SortWords(ws) == IF ws = <<>> THEN <<>> ELSE InsertWord(Head(ws), SortWords(Tail(ws)))

RECURSIVE JoinWords(_)
JoinWords(ws) ==
    IF ws = <<>> THEN <<>>
    ELSE IF Len(ws) = 1 THEN ws[1]
    ELSE ws[1] \o <<" ">> \o JoinWords(Tail(ws))

\* the sorted words of s joined by one space (the first step of token_sort_ratio)
TokenSort(s) == JoinWords(SortWords(split(s)))

\* a similarity or a score as a fraction n / d, so that 200/3 is not rounded
Rat(n, d) == [n |-> n, d |-> d]
RatLess(x, y) == x.n * y.d < y.n * x.d

\* length of a longest common subsequence
RECURSIVE LcsLen(_, _)
LcsLen(a, b) ==
    IF a = <<>> \/ b = <<>> THEN 0
    ELSE IF Head(a) = Head(b) THEN 1 + LcsLen(Tail(a), Tail(b))
    ELSE Max(LcsLen(Tail(a), b), LcsLen(a, Tail(b)))

\* rapidfuzz fuzz.ratio: the normalised Indel similarity, 100 * 2 * lcs / (la + lb)
IndelRatio(a, b) ==
    IF Len(a) + Len(b) = 0 THEN Rat(100, 1)
    ELSE Rat(200 * LcsLen(a, b), Len(a) + Len(b))

\* rapidfuzz fuzz.token_sort_ratio
token_sort_ratio(a, b) == IndelRatio(TokenSort(a), TokenSort(b))

\* length of the common run of a from i and b from j
RECURSIVE RunLen(_, _, _, _)
RunLen(a, b, i, j) ==
    IF i > Len(a) \/ j > Len(b) THEN 0
    ELSE IF a[i] # b[j] THEN 0
    ELSE 1 + RunLen(a, b, i + 1, j + 1)

\* the size of the longest common block of a and b
LongestRun(a, b) ==
    CHOOSE n \in 0..Min(Len(a), Len(b)) :
        /\ n = 0 \/ \E i \in 1..Len(a), j \in 1..Len(b) : RunLen(a, b, i, j) = n
        /\ \A i \in 1..Len(a), j \in 1..Len(b) : RunLen(a, b, i, j) <= n

\* the earliest start in a of a common block of size k
FirstInA(a, b, k) ==
    CHOOSE x \in 1..Len(a) :
        /\ \E j \in 1..Len(b) : RunLen(a, b, x, j) = k
        /\ \A y \in 1..(x - 1) : \A j \in 1..Len(b) : RunLen(a, b, y, j) # k

\* the earliest start in b of a common block of size k that starts at i in a
FirstInB(a, b, i, k) ==
    CHOOSE x \in 1..Len(b) :
        /\ RunLen(a, b, i, x) = k
        /\ \A y \in 1..(x - 1) : RunLen(a, b, i, y) # k

BlockFrom(a, b, i, k) == [i |-> i, j |-> FirstInB(a, b, i, k), size |-> k]

BlockOfSize(a, b, k) ==
    IF k = 0 THEN [i |-> 0, j |-> 0, size |-> 0]
    ELSE BlockFrom(a, b, FirstInA(a, b, k), k)

\* SequenceMatcher.find_longest_match: the longest common block, the earliest
\* in a among the longest, the earliest in b among those
find_longest_match(a, b) == BlockOfSize(a, b, LongestRun(a, b))

\* sum of the sizes of SequenceMatcher.get_matching_blocks(): the block m and
\* the blocks to its left and to its right
RECURSIVE MatchedChars(_, _)
MatchedAround(a, b, m) ==
    IF m.size = 0 THEN 0
    ELSE m.size
         + MatchedChars(SubSeq(a, 1, m.i - 1), SubSeq(b, 1, m.j - 1))
         + MatchedChars(SubSeq(a, m.i + m.size, Len(a)),
                        SubSeq(b, m.j + m.size, Len(b)))

MatchedChars(a, b) ==
    IF a = <<>> \/ b = <<>> THEN 0
    ELSE MatchedAround(a, b, find_longest_match(a, b))

\* difflib SequenceMatcher(None, a, b).ratio() * 100.0
SequenceMatcherRatio(a, b) ==
    IF Len(a) + Len(b) = 0 THEN Rat(100, 1)
    ELSE Rat(200 * MatchedChars(a, b), Len(a) + Len(b))

\* lines 283-290: which of the two definitions of _ratio the process has
\* depends on whether rapidfuzz can be imported
_ratio(a, b) ==
    IF res.rapidfuzz THEN token_sort_ratio(a, b) ELSE SequenceMatcherRatio(a, b)

-----------------------------------------------------------------------------
(* Favorite resolver (lines 301-384)                                       *)

MaxCands == 2           \* tracks in one track-search answer of the resolver
AcceptThreshold == 72   \* accept_threshold=72.0

\* the tracks a search of the resolver can return
ResTracks ==
    { [id |-> <<"1">>, name |-> <<"a">>,
       artists |-> <<[id |-> <<"7">>, name |-> <<"b">>]>>,
       url |-> <<"u1">>, pop |-> 10],
      [id |-> <<"2">>, name |-> <<"A", "!">>,
       artists |-> <<[id |-> <<"9">>, name |-> <<"B">>]>>,
       url |-> <<>>, pop |-> 80],
      [id |-> <<"4">>, name |-> <<"a", "b">>,
       artists |-> <<[id |-> <<"7">>, name |-> <<"b">>]>>,
       url |-> <<>>, pop |-> NoPop],
      [id |-> <<"5">>, name |-> <<"a">>,
       artists |-> <<[id |-> <<"8">>, name |-> <<"c">>]>>,
       url |-> <<>>, pop |-> NoPop],
      [id |-> <<"3">>, name |-> <<"c">>, artists |-> <<>>,
       url |-> <<"u3">>, pop |-> NoPop],
      [id |-> <<"6">>, name |-> <<"a">>,
       artists |-> <<[id |-> <<>>, name |-> <<"b">>]>>,
       url |-> <<>>, pop |-> NoPop] }

\* the (title, artist) arguments tried
ResInputs ==
    { << <<"A", "!">>, <<"b">> >>,
      << <<"c">>, <<"b">> >>,
      << <<>>, <<"b">> >>,
      << <<"a">>, <<>> >>,
      << <<"!">>, <<"b">> >>,
      << <<" ">>, <<"b">> >> }

SearchAnswers == Answers(SeqsUpTo(ResTracks, MaxCands))
TitleOnlyAnswers == Answers(SeqsUpTo(ResTracks, 1))
ByNameAnswers == Answers(SeqsUpTo(ArtistUniverse, 1))

\* sp.get_artist: the artist record (one without "name" and "genres" too)
GetArtistAnswers ==
    { Fail,
      Ok(<<[name |-> <<"b">>, genres |-> << <<"pop">> >>]>>),
      Ok(<<[name |-> <<>>, genres |-> <<>>]>>) }

\* the variants of _try_search_variants: 1 and 2 the two queries of
\* search_tracks_filtered, 3 free text, 4 search_track on both, 5 title only,
\* 6 artist only, 7 first words
LastVariant == 7

\* does variant k of _try_search_variants send a request?  The client
\* methods return [] without a request when their stripped query is empty.
VariantRequested(k, title, artist) ==
    CASE k = 1 -> title # <<>> \/ artist # <<>>
      [] k = 2 -> title # <<>> \/ artist # <<>>
      [] k = 3 -> Strip(title \o <<" ">> \o artist) # <<>>
      [] k = 4 -> Strip(title) # <<>> \/ Strip(artist) # <<>>
      [] k = 5 -> Strip(title) # <<>>
      [] k = 6 -> Strip(artist) # <<>>
      [] OTHER -> split(title) # <<>> \/ split(artist) # <<>>

\* lines 323-324: (title or "").split()[0] is an IndexError for a title or an
\* artist of white space only; the two lines are outside every try
VariantRaises(k, title, artist) ==
    /\ k = LastVariant
    /\ \/ title # <<>> /\ split(title) = <<>>
       \/ artist # <<>> /\ split(artist) = <<>>

\* the variants whose request runs inside a try of _try_search_variants
CascadeTry == 1..LastVariant

\* the variant tried after variant k gave no candidates: the two queries of
\* search_tracks_filtered (lines 225-233) are inside one try (line 304), so
\* that a failure of the first leaves out the second
VariantAfter(k, ok) == IF k = 1 /\ ~ok THEN 3 ELSE k + 1

\* mutant: the artist-record fetch of the track path is outside the try
RobustTryNoFetch == {"variants", "by_name", "name_fetch", "title_only", "title_fetch"}

\* lines 365-383: the steps inside the try of resolve_artist_robust
RobustTry == {"variants", "fetch", "by_name", "name_fetch", "title_only", "title_fetch"}

\* where an exception of the step ends: in the handler, which returns None,
\* or outside resolve_artist_robust
Thrown(step) == IF step \in RobustTry THEN "rs_done" ELSE "rs_raised"

\* lines 343-348: the score of one candidate
CandidateScore(tr, title_clean, artist_clean) ==
    LET tr_title_clean == _clean(tr.name)
        lead_name_clean == IF tr.artists # <<>> THEN _clean(tr.artists[1].name) ELSE <<>>
        score_title == IF title_clean # <<>> THEN _ratio(title_clean, tr_title_clean)
                       ELSE Rat(0, 1)
        score_artist == IF artist_clean # <<>> THEN _ratio(artist_clean, lead_name_clean)
                        ELSE Rat(0, 1)
    IN  Rat(6 * score_artist.n * score_title.d + 4 * score_title.n * score_artist.d,
            10 * score_artist.d * score_title.d)

\* mutant: the first candidate is kept whatever it scores
BestFirst(candidates, i, best_item, best_score, title_clean, artist_clean) ==
    IF candidates = <<>> THEN [item |-> 0, score |-> Rat(-1, 1)]
    ELSE [item |-> 1, score |-> CandidateScore(candidates[1], title_clean, artist_clean)]

\* lines 341-351: the loop over the candidates from position i on
RECURSIVE BestFrom(_, _, _, _, _, _)
BestFrom(candidates, i, best_item, best_score, title_clean, artist_clean) ==
    IF i > Len(candidates) THEN [item |-> best_item, score |-> best_score]
    ELSE LET score == CandidateScore(candidates[i], title_clean, artist_clean)
         IN  IF RatLess(best_score, score)
             THEN BestFrom(candidates, i + 1, i, score, title_clean, artist_clean)
             ELSE BestFrom(candidates, i + 1, best_item, best_score,
                           title_clean, artist_clean)

\* mutant: every best candidate is accepted
AcceptedAlways(best) == best.item # 0

\* line 352, negated: best_item is not None and best_score >= accept_threshold
Accepted(best) == best.item # 0 /\ ~RatLess(best.score, Rat(AcceptThreshold, 1))

\* the tuple (aid, name, genres) built from the artist record
ResolvedTuple(aid, lead_name, adata) ==
    [none |-> FALSE, id |-> aid,
     name |-> IF adata.name # <<>> THEN adata.name ELSE lead_name,
     genres |-> adata.genres]

NoArtistData == [name |-> <<>>, genres |-> <<>>]
NoLead == [id |-> <<>>, name |-> <<>>]

engineVars == <<ilVars, inputVars, rng, favorites, fav_keys, artist_infos, idx,
                stdVars, bkVars, resp, callVars>>

CoreIdle ==
    /\ il_lists = <<>> /\ il_out = <<>>
    /\ favorites = <<>> /\ regen_nonce = 0 /\ market = <<>> /\ date_key = <<>>
    /\ StdInputsIdle /\ BkInputsIdle /\ EngineIdle /\ StdIdle /\ BkIdle
    /\ CallIdle

InitResolver ==
    /\ pc = "rs_cascade"
    /\ \E fav \in ResInputs, fuzz \in BOOLEAN :
          res = [title |-> fav[1], artist |-> fav[2], rapidfuzz |-> fuzz,
                 k |-> 1, asked |-> <<>>, tried |-> {}, failed |-> {},
                 results |-> <<>>,
                 scored |-> FALSE, best |-> 0, lead |-> NoLead,
                 via |-> "none", out |-> None]
    /\ client = <<>> /\ ui = <<>> /\ shuf = <<>>
    /\ CoreIdle

\* lines 301-329: one variant of the cascade
RsSearch ==
    /\ pc = "rs_cascade"
    /\ IF VariantRaises(res.k, res.title, res.artist)
       THEN /\ pc' = Thrown("variants")
            /\ UNCHANGED res
       ELSE LET asks == VariantRequested(res.k, res.title, res.artist)
            IN  \E ans \in (IF asks THEN SearchAnswers ELSE {Ok(<<>>)}) :
                  LET last == ans.items # <<>> \/ res.k = LastVariant
                  IN  /\ res' = [res EXCEPT
                                   !.asked = IF asks THEN Append(@, res.k) ELSE @,
                                   !.tried = @ \cup {res.k},
                                   !.failed = IF ans.ok THEN @ ELSE @ \cup {"cascade"},
                                   !.results = ans.items,
                                   !.k = IF last THEN @ ELSE VariantAfter(@, ans.ok)]
                      /\ pc' = IF ~ans.ok /\ res.k \notin CascadeTry
                               THEN Thrown("variants")
                               ELSE IF last THEN "rs_score" ELSE "rs_cascade"
    /\ UNCHANGED <<engineVars, client, ui, shuf>>

\* lines 337-354: the best candidate, the threshold and its lead artist
RsScore ==
    /\ pc = "rs_score"
    /\ LET best == BestFrom(res.results, 1, 0, Rat(-1, 1),
                            _clean(res.title), _clean(res.artist))
           artists == IF best.item = 0 THEN <<>> ELSE res.results[best.item].artists
           lead == IF artists # <<>> THEN artists[1] ELSE NoLead
       IN  IF ~Accepted(best)
           THEN /\ res' = [res EXCEPT !.scored = TRUE, !.best = best.item]
                /\ pc' = "rs_by_name"
           ELSE IF lead.id # <<>>
           THEN /\ res' = [res EXCEPT !.scored = TRUE, !.best = best.item,
                                      !.lead = lead]
                /\ pc' = "rs_fetch"
           ELSE /\ res' = [res EXCEPT !.scored = TRUE, !.best = best.item,
                                      !.lead = lead, !.via = "track",
                                      !.out = ResolvedTuple(<<>>, lead.name, NoArtistData)]
                /\ pc' = "rs_done"
    /\ UNCHANGED <<engineVars, client, ui, shuf>>

\* sp.get_artist(aid) and the returned tuple (lines 355-360, 374-375, 381-382)
FetchStep(at, step, via) ==
    /\ pc = at
    /\ \E ans \in GetArtistAnswers :
          IF ans.ok
          THEN /\ res' = [res EXCEPT !.via = via,
                            !.out = ResolvedTuple(res.lead.id, res.lead.name, ans.items[1])]
               /\ pc' = "rs_done"
          ELSE /\ res' = [res EXCEPT !.failed = @ \cup {step}]
               /\ pc' = Thrown(step)
    /\ UNCHANGED <<engineVars, client, ui, shuf>>

RsFetch == FetchStep("rs_fetch", "fetch", "track")

\* lines 368-375: the artist-name fallback
RsByName ==
    /\ pc = "rs_by_name"
    /\ res.artist # <<>>
    /\ \E ans \in (IF Strip(res.artist) # <<>> THEN ByNameAnswers ELSE {Ok(<<>>)}) :
          IF ~ans.ok
          THEN /\ res' = [res EXCEPT !.failed = @ \cup {"by_name"}]
               /\ pc' = Thrown("by_name")
          ELSE IF ans.items = <<>>
          THEN /\ pc' = "rs_done"
               /\ UNCHANGED res
          ELSE LET a == ans.items[1]
               IN  IF a.id # <<>>
                   THEN /\ res' = [res EXCEPT !.lead = [id |-> a.id, name |-> a.name]]
                        /\ pc' = "rs_name_fetch"
                   ELSE /\ res' = [res EXCEPT !.via = "by_name",
                                     !.out = ResolvedTuple(a.id, a.name, NoArtistData)]
                        /\ pc' = "rs_done"
    /\ UNCHANGED <<engineVars, client, ui, shuf>>

RsNameFetch == FetchStep("rs_name_fetch", "name_fetch", "by_name")

\* lines 376-382: the title-only fallback
RsTitleOnly ==
    /\ pc = "rs_by_name"
    /\ res.artist = <<>>
    /\ IF res.title = <<>>
       THEN /\ pc' = "rs_done"
            /\ UNCHANGED res
       ELSE \E ans \in (IF Strip(res.title) # <<>> THEN TitleOnlyAnswers ELSE {Ok(<<>>)}) :
              IF ~ans.ok
              THEN /\ res' = [res EXCEPT !.failed = @ \cup {"title_only"}]
                   /\ pc' = Thrown("title_only")
              ELSE IF ans.items = <<>>
              THEN /\ pc' = "rs_done"
                   /\ UNCHANGED res
              ELSE LET core == extract_track_core(ans.items[1])
                   IN  IF core.a_id # <<>>
                       THEN /\ res' = [res EXCEPT
                                         !.lead = [id |-> core.a_id, name |-> core.a_name]]
                            /\ pc' = "rs_title_fetch"
                       ELSE /\ pc' = "rs_done"
                            /\ UNCHANGED res
    /\ UNCHANGED <<engineVars, client, ui, shuf>>

RsTitleFetch == FetchStep("rs_title_fetch", "title_fetch", "title_only")

NextResolver ==
    \/ RsSearch
    \/ RsScore
    \/ RsFetch
    \/ RsByName
    \/ RsNameFetch
    \/ RsTitleOnly
    \/ RsTitleFetch

SpecResolver == InitResolver /\ [][NextResolver]_vars

-----------------------------------------------------------------------------
(* Properties of the favorite resolver                                     *)

\* the requests whose failure ends resolve_artist_robust in its handler
UncaughtInside == {"fetch", "by_name", "name_fetch", "title_only", "title_fetch"}

\* C11 as stated: resolve_artist_robust never lets an error out, and it
\* returns None whenever some request of the resolution failed, a track
\* search of the cascade included.
C11_NullOnAnyFailureOriginal ==
    /\ pc # "rs_raised"
    /\ pc = "rs_done" /\ res.failed # {} => res.out = None

\* C11, amended: resolve_artist_robust never lets an error out; it returns
\* None whenever the artist-name fallback search, the title-only fallback
\* search or an artist-record fetch failed; a failed track search of the
\* cascade only leaves the candidate list of that variant empty.
C11_ResolutionNeverRaises ==
    /\ pc # "rs_raised"
    /\ pc = "rs_done" /\ res.failed \cap UncaughtInside # {} => res.out = None
    /\ pc = "rs_cascade" /\ "cascade" \in res.failed => res.results = <<>>

\* the artist-record fetch of an accepted candidate failed and None came back
C11_Witness ==
    /\ pc = "rs_done"
    /\ res.scored /\ res.best > 0
    /\ "fetch" \in res.failed
    /\ res.out = None

\* the score of candidate i of the cascade for the arguments of the call
ScoreOf(i) == CandidateScore(res.results[i], _clean(res.title), _clean(res.artist))

\* the maximum of the scores is strictly below the threshold
AllBelowThreshold ==
    \A i \in 1..Len(res.results) : RatLess(ScoreOf(i), Rat(AcceptThreshold, 1))

\* C12 as stated: when every candidate of the cascade scores strictly below
\* 72.0, resolve_artist_robust returns None.
C12_ThresholdOriginal ==
    pc = "rs_done" /\ res.scored /\ AllBelowThreshold => res.out = None

\* C12, amended: when every candidate of the cascade scores strictly below
\* 72.0, the track-anchored path accepts none of them (no artist record is
\* fetched for a candidate), and resolve_artist_robust returns None unless
\* the artist-name or the title-only fallback search finds an artist.
C12_Threshold ==
    pc \in {"rs_score", "rs_fetch", "rs_by_name", "rs_name_fetch",
            "rs_title_fetch", "rs_done"}
    /\ res.scored /\ AllBelowThreshold
    => /\ pc # "rs_fetch"
       /\ pc = "rs_done" => res.out = None \/ res.via \in {"by_name", "title_only"}

\* candidates were found, all of them score below 72.0, no request failed,
\* the fallback found nothing and None came back
C12_Witness ==
    /\ pc = "rs_done"
    /\ res.scored /\ res.results # <<>> /\ AllBelowThreshold
    /\ \E i \in 1..Len(res.results) : RatLess(Rat(0, 1), ScoreOf(i))
    /\ res.failed = {}
    /\ res.out = None

\* candidate i has the normalised title and lead artist of the call, and
\* scores 100
ExactCandidate(i) ==
    LET tr == res.results[i]
    IN  /\ _clean(tr.name) = _clean(res.title)
        /\ tr.artists # <<>>
        /\ _clean(tr.artists[1].name) = _clean(res.artist)
        /\ ScoreOf(i).n = 100 * ScoreOf(i).d

\* the result carries the lead-artist id of a candidate that scores 100
ResultOfScore100 ==
    /\ res.out # None
    /\ \E i \in 1..Len(res.results) :
          /\ ScoreOf(i).n = 100 * ScoreOf(i).d
          /\ res.results[i].artists # <<>>
          /\ res.out.id = res.results[i].artists[1].id

\* C13 as stated: whenever the candidates of the cascade contain a track with
\* the normalised title and lead artist of the call (score 100),
\* resolve_artist_robust returns a result with the lead-artist id of a
\* score-100 candidate.
C13_ExactMatchOriginal ==
    pc = "rs_done" /\ res.scored /\ (\E i \in 1..Len(res.results) : ExactCandidate(i))
    => ResultOfScore100

\* C13, amended: the same, provided the fetch of the artist record of the
\* chosen candidate does not fail (when it fails the result is None).
C13_ExactMatch ==
    pc = "rs_done" /\ res.scored /\ (\E i \in 1..Len(res.results) : ExactCandidate(i))
    => IF "fetch" \in res.failed THEN res.out = None
       ELSE ResultOfScore100 /\ res.via = "track"

\* the exact candidate stands behind one that scores less, and it is chosen
C13_Witness ==
    /\ pc = "rs_done"
    /\ Len(res.results) = 2
    /\ ~ExactCandidate(1) /\ ExactCandidate(2)
    /\ res.best = 2
    /\ res.out # None /\ res.out.id = res.results[2].artists[1].id
    /\ res.out.id # <<>>

-----------------------------------------------------------------------------
(* Catalog client: token cache and _api_get (lines 179-212)                *)

MaxCalls == 3           \* calls of _api_get on one client
MaxClock == 60          \* last clock value of a call
DefaultExpiresIn == 3600    \* payload.get("expires_in", 3600)
TokenLifePercent == 95      \* the factor 0.95 of line 198

\* seconds between two calls, and the lifetimes the token endpoint announces
\* (0: the payload carries no "expires_in")
Ticks == {0, 1, 19, 38}
ExpiresIns == {20, 40, 0}

\* what the token endpoint answers: a token with its payload, or an error
TokenAnswers == {[ok |-> TRUE, expires_in |-> e] : e \in ExpiresIns}
                \cup {[ok |-> FALSE, expires_in |-> 0]}

\* what the API answers to a GET: a body, HTTP 429 with Retry-After, HTTP 401,
\* or another transport error; urlopen raises for every one but the first
ResponseKinds == {"ok", "rate_limited", "invalid_token", "error"}

\* mutant: the token is kept for the whole of expires_in
ExpiresAtWhole(t, expires_in) ==
    t + (IF expires_in = 0 THEN DefaultExpiresIn ELSE expires_in)

\* time.time() + float(payload.get("expires_in", 3600)) * 0.95; 0 stands for
\* a payload without the field
ExpiresAt(t, expires_in) ==
    t + (((IF expires_in = 0 THEN DefaultExpiresIn ELSE expires_in)
            * TokenLifePercent) \div 100)

\* lines 183-184: a new client has no token and _expires_at = 0.0; bearer is
\* the token _api_get holds for its request (line 206), payload the
\* expires_in of the last token answer
NewClient ==
    [token |-> 0, expires_at |-> 0, now |-> 0, calls |-> 0, sent |-> 0,
     fetched |-> 0, answer |-> "none", outcome |-> "none", bearer |-> 0,
     payload |-> 0]

InitClient ==
    /\ pc = "cl_idle"
    /\ client = NewClient
    /\ res = <<>> /\ ui = <<>> /\ shuf = <<>>
    /\ CoreIdle

\* a caller enters _api_get, some time after the last call
ClCall ==
    /\ pc = "cl_idle"
    /\ client.calls < MaxCalls
    /\ \E dt \in Ticks :
          /\ client.now + dt <= MaxClock
          /\ client' = [client EXCEPT !.now = @ + dt, !.calls = @ + 1, !.sent = 0,
                                      !.fetched = 0, !.answer = "none",
                                      !.outcome = "none", !.bearer = 0]
    /\ pc' = "cl_ensure"
    /\ UNCHANGED <<engineVars, res, ui, shuf>>

\* lines 200-203 with 186-198: _ensure_token, fetching when there is no token
\* or the token has expired; a failing token request raises out of _api_get
ClEnsureToken ==
    /\ pc = "cl_ensure"
    /\ IF client.token = 0 \/ client.now >= client.expires_at
       THEN \E ans \in TokenAnswers :
              IF ans.ok
              THEN /\ client' = [client EXCEPT
                                   !.token = @ + 1,
                                   !.expires_at = ExpiresAt(client.now, ans.expires_in),
                                   !.fetched = @ + 1,
                                   !.bearer = client.token + 1,
                                   !.payload = ans.expires_in]
                   /\ pc' = "cl_send"
              ELSE /\ client' = [client EXCEPT !.fetched = @ + 1,
                                               !.outcome = "raised"]
                   /\ pc' = "cl_idle"
       ELSE /\ pc' = "cl_send"
            /\ client' = [client EXCEPT !.bearer = client.token]
    /\ UNCHANGED <<engineVars, res, ui, shuf>>

\* lines 206-212: the GET; the body is returned, every error is raised
ClSend ==
    /\ pc = "cl_send"
    /\ \E kind \in ResponseKinds :
          client' = [client EXCEPT
                       !.sent = @ + 1,
                       !.answer = kind,
                       !.outcome = IF kind = "ok" THEN "returned" ELSE "raised"]
    /\ pc' = "cl_idle"
    /\ UNCHANGED <<engineVars, res, ui, shuf>>

NextClient == ClCall \/ ClEnsureToken \/ ClSend

SpecClient == InitClient /\ [][NextClient]_vars

\* C14: a request answered with a rate-limit response is sent again exactly
\* once, a request answered with an invalid-token response is sent again
\* exactly once after a fresh token was fetched, and an error reaches the
\* caller only when the request sent again fails.
C14_ClientRetry ==
    pc = "cl_idle" /\ client.calls > 0 /\ client.sent > 0
    => /\ client.answer = "rate_limited" => client.sent = 2
       /\ client.answer = "invalid_token" => client.sent = 2 /\ client.fetched >= 1
       /\ client.outcome = "raised"
          /\ client.answer \in {"rate_limited", "invalid_token"} => client.sent = 2

-----------------------------------------------------------------------------
(* _stable_shuffle as a function of its arguments (lines 512-517)          *)

MaxShuffleLen == 4      \* length of the list handed to _stable_shuffle
MaxSaltLen == 2         \* length of the salt

ShuffleItems == {<<<<"a">>, <<"u1">>>>, <<<<"b">>, <<>>>>, <<<<"c">>, <<"u3">>>>}
SaltTokens == {"U", "|", "1"}

InitShuffle ==
    /\ pc = "sh_call"
    /\ \E items \in SeqsUpTo(ShuffleItems, MaxShuffleLen),
          salt \in SeqsUpTo(SaltTokens, MaxSaltLen) :
          shuf = [items |-> items, salt |-> salt, out |-> <<>>]
    /\ res = <<>> /\ client = <<>> /\ ui = <<>>
    /\ CoreIdle

ShuffleCall ==
    /\ pc = "sh_call"
    /\ shuf' = [shuf EXCEPT !.out = _stable_shuffle(shuf.items, shuf.salt)]
    /\ pc' = "sh_done"
    /\ UNCHANGED <<engineVars, res, client, ui>>

NextShuffle == ShuffleCall

SpecShuffle == InitShuffle /\ [][NextShuffle]_vars

\* C17: _stable_shuffle(items, salt) has the length of items and holds every
\* element as often as items does.
C17_StableShufflePermutation ==
    pc = "sh_done"
    => /\ Len(shuf.out) = Len(shuf.items)
       /\ \A x \in Range(shuf.items) \cup Range(shuf.out) :
             Count(shuf.out, x) = Count(shuf.items, x)

\* a list with a repeated element came back in another order
C17_Witness ==
    /\ pc = "sh_done"
    /\ Len(shuf.items) = MaxShuffleLen
    /\ \E x \in Range(shuf.items) : Count(shuf.items, x) = 2
    /\ shuf.out # shuf.items

-----------------------------------------------------------------------------
(* Properties of recommend_from_favorites, continued                       *)

\* position of the genre named in the label "Name (genre)" among the five
\* genres of the cross-genre sample, 0 when the label has another form
SampleGenreIndex(item) ==
    LET label == item[1]
        n == Len(label)
    IN  IF n >= 5 /\ label[n] = ")" /\ label[n - 2] = "(" /\ label[n - 3] = " "
           /\ \E k \in 1..Len(DefaultGenres) : DefaultGenres[k] = <<label[n - 1]>>
        THEN CHOOSE k \in 1..Len(DefaultGenres) : DefaultGenres[k] = <<label[n - 1]>>
        ELSE 0

\* the five genres in the order of line 539
SampleGenreOrder ==
    /\ Len(DefaultGenres) = 5
    /\ DefaultGenres[1] = <<"indie">> /\ DefaultGenres[2] = <<"electronic">>
    /\ DefaultGenres[3] = <<"hip hop">> /\ DefaultGenres[4] = <<"latin">>
    /\ DefaultGenres[5] = <<"pop">>

\* C19: when no favorite resolves to an artist with an id, no top-track and
\* no related-artist request is made, and the result is the first max_recs
\* items of the cross-genre sample (genres visited in the order indie,
\* electronic, hip hop, latin, pop; labels "Name (genre)"), or the one
\* explore placeholder when the sample is empty.
C19_NoResolutionFallback ==
    /\ SampleGenreOrder
    /\ pc \in {"own", "related", "merge", "backfill"} => artist_infos # <<>>
    /\ pc \in {"no_resolution", "std_done"} /\ artist_infos = <<>>
       => /\ resp.step \in {"none", "no_resolution"}
          /\ per_artist_fav = <<>> /\ per_artist_related = <<>>
          /\ \A i \in 1..Len(mixed) : SampleGenreIndex(mixed[i]) > 0
          /\ \A i, j \in 1..Len(mixed) :
                i < j => SampleGenreIndex(mixed[i]) <= SampleGenreIndex(mixed[j])
    /\ pc = "std_done" /\ artist_infos = <<>>
       => IF mixed = <<>> THEN recs = <<DiscoverOnSpotify>>
          ELSE /\ Len(recs) = Min(max_recs, Len(mixed))
               /\ \A i \in 1..Len(recs) : recs[i] = mixed[i]

\* a favorite was given and did not resolve, the sample holds artists of two
\* genres and more than max_recs of them, and the first max_recs came back
C19_Witness ==
    /\ pc = "std_done" /\ artist_infos = <<>>
    /\ favorites # <<>>
    /\ max_recs > 0 /\ Len(mixed) > max_recs
    /\ SampleGenreIndex(mixed[1]) < SampleGenreIndex(mixed[Len(mixed)])
    /\ recs = SubSeq(mixed, 1, max_recs)

-----------------------------------------------------------------------------
(* Favorite validity: the input collector (lines 944-960) and the first    *)
(* line of the two engine functions (lines 528 and 654)                    *)

MaxRows == 3            \* rows of the form (the program has three)

\* what a title field and an artist field of the form can hold
RowTitles == {<<>>, <<" ">>, <<"a", " ">>}
RowArtists == {<<>>, <<" ">>, <<"b">>}
RowLabels == << <<"Favorite #1">>, <<"Favorite #2">>, <<"Favorite #3">> >>

\* lines 947-951: the rows with their label, both fields stripped
StrippedRows(rows) ==
    [i \in 1..Len(rows) |->
        [label |-> RowLabels[i], t |-> Strip(rows[i][1]), a |-> Strip(rows[i][2])]]

\* lines 952-960: the loop over the rows from the first one on
RECURSIVE CollectFrom(_)
CollectFrom(rows) ==
    IF rows = <<>> THEN [valid |-> <<>>, warnings |-> <<>>]
    ELSE LET r == Head(rows)
             rest == CollectFrom(Tail(rows))
         IN  IF r.t # <<>> /\ r.a # <<>>
             THEN [rest EXCEPT !.valid = << <<r.t, r.a>> >> \o @]
             ELSE IF r.t # <<>> /\ r.a = <<>>
             THEN [rest EXCEPT !.warnings = << <<r.label, "artist missing">> >> \o @]
             ELSE IF r.a # <<>> /\ r.t = <<>>
             THEN [rest EXCEPT !.warnings = << <<r.label, "title missing">> >> \o @]
             ELSE rest

_collect_favorites_with_feedback(rows) == CollectFrom(StrippedRows(rows))

\* The engine is entered with the list of the collector (line 966), or it is
\* called with a list of pairs as they are.
InitValidity ==
    /\ \E rows \in UNION {[1..n -> RowTitles \X RowArtists] : n \in 0..MaxRows} :
          \/ /\ Len(rows) = MaxRows
             /\ pc = "ui_collect"
             /\ ui = [rows |-> rows, direct |-> FALSE, valid |-> <<>>,
                      warnings |-> <<>>]
          \/ /\ pc = "ui_entry"
             /\ ui = [rows |-> rows, direct |-> TRUE, valid |-> rows,
                      warnings |-> <<>>]
    /\ res = <<>> /\ client = <<>> /\ shuf = <<>>
    /\ CoreIdle

CollectFavorites ==
    /\ pc = "ui_collect"
    /\ LET c == _collect_favorites_with_feedback(ui.rows)
       IN  ui' = [ui EXCEPT !.valid = c.valid, !.warnings = c.warnings]
    /\ pc' = "ui_entry"
    /\ UNCHANGED <<engineVars, res, client, shuf>>

\* lines 528 and 654; every pair of the rebound list is then handed to
\* resolve_artist_robust (lines 530-531, 660-661)
EngineEntry ==
    /\ pc = "ui_entry"
    /\ favorites' = FilterFavorites(ui.valid)
    /\ pc' = "ui_done"
    /\ UNCHANGED <<ilVars, inputVars, rng, fav_keys, artist_infos, idx, stdVars,
                   bkVars, resp, sideVars, callVars>>

NextValidity == CollectFavorites \/ EngineEntry

SpecValidity == InitValidity /\ [][NextValidity]_vars

\* both fields of the row are non-empty after trimming
ValidRow(row) == Strip(row[1]) # <<>> /\ Strip(row[2]) # <<>>
OneFieldRow(row) == (Strip(row[1]) # <<>>) # (Strip(row[2]) # <<>>)
TrimmedRows(rows) == [i \in 1..Len(rows) |-> <<Strip(rows[i][1]), Strip(rows[i][2])>>]

\* C20: an engine function attempts a resolution only for favorites whose
\* title and artist are both non-empty after trimming, and the collector
\* keeps the valid rows in order and warns once for every row with exactly
\* one field filled.
C20_FavoriteValidity ==
    /\ pc = "ui_done"
       => \A i \in 1..Len(favorites) :
             favorites[i][1] # <<>> /\ favorites[i][2] # <<>>
    /\ pc \in {"ui_entry", "ui_done"} /\ ~ui.direct
       => /\ ui.valid = TrimmedRows(SelectSeq(ui.rows, ValidRow))
          /\ Len(ui.warnings) = Len(SelectSeq(ui.rows, OneFieldRow))

-----------------------------------------------------------------------------
(* Properties of build_recommendation_buckets, continued                   *)

\* the different names (as _dedupe compares them) of the candidate artists
\* found for the two artist buckets
CandidateKeys ==
    {Lower(Strip(related_all[i][1])) : i \in 1..Len(related_all)} \ {<<>>}

ArtistItems == Len(buckets.may_know) + Len(buckets.discover)

StdWorlds ==
    { w \in [on : {TRUE}, resolve : ResolveResults, top : TopOutcomes5,
             rel : Answers(RelatedLists), rtop : TopOutcomes5,
             genre : Answers(GenreLists)] :
        w.resolve.id = <<>> => (w.top = Fail /\ w.rel = Fail /\ w.rtop = Fail) }

InitStdTwice ==
    /\ pc = "std_start"
    /\ favorites \in SeqsUpTo(FavPairs, MaxBucketFavs)
    /\ max_recs \in {1, MaxRecs}
    /\ regen_nonce \in 0..MaxNonce
    /\ market \in Markets
    /\ now = FirstCall
    /\ date_key = strftime_Ymd(now)
    /\ world \in StdWorlds
    /\ twin = [NoTwin EXCEPT !.args = favorites, !.now = now, !.nonce = regen_nonce]
    /\ il_lists = <<>> /\ il_out = <<>>
    /\ BkInputsIdle /\ EngineIdle /\ SideIdle /\ StdIdle /\ BkIdle

\* the caller keeps the first result and calls again later with the same
\* market and favorites, and with a counter of its choice (line 617: the
\* date key is read from the clock at each call)
StdAgain ==
    /\ pc = "std_done"
    /\ world.on
    /\ twin.call = 1
    /\ twin' = [twin EXCEPT !.call = 2, !.recs = recs]
    /\ \E t \in Timestamps \ {now} : now' = t
    /\ date_key' = strftime_Ymd(now')
    /\ regen_nonce' \in 0..MaxNonce
    /\ favorites' = twin.args
    /\ rng' = 0 /\ fav_keys' = {} /\ artist_infos' = <<>> /\ idx' = 0
    /\ resp' = NoResp
    /\ per_artist_fav' = <<>> /\ per_artist_related' = <<>> /\ mixed' = <<>>
    /\ mixed_shuffled' = <<>> /\ recs' = <<>>
    /\ pc' = "std_start"
    /\ UNCHANGED <<ilVars, sideVars, bkVars, world, max_recs, track_pop_max,
                   per_bucket, min_artists, market, hash_seed, live>>

NextStdTwice ==
    \/ NextStd
    \/ StdAgain

SpecStdTwice == InitStdTwice /\ [][NextStdTwice]_vars

SecondCallDone == pc = "std_done" /\ twin.call = 2
\* both calls read the clock on one UTC date
SameDay == now[1] = twin.now[1]

\* C16: two calls of recommend_from_favorites with the same market, favorites
\* and regenerate counter, on the same UTC day and against the same catalog
\* answers, return the same items in the same order
C16_Reproducible ==
    (SecondCallDone /\ SameDay /\ regen_nonce = twin.nonce) => recs = twin.recs

\* the second call ran at another time of the same day with the same counter,
\* and the order returned is one the shuffle made
C16_Witness ==
    /\ SecondCallDone /\ SameDay /\ now # twin.now
    /\ regen_nonce = twin.nonce
    /\ Len(recs) >= 2
    /\ mixed_shuffled # mixed
    /\ recs = twin.recs

\* ---------------------------------------------------------------------------
\* build_recommendation_buckets called twice against one catalog, the second
\* time with every top-track fetch of the hidden gems failing
\* ---------------------------------------------------------------------------

\* the catalogs of the two calls; the related artists' top tracks are not
\* asked for, the songs and rising-stars searches being down in both calls
BkWorlds ==
    { w \in [on : {TRUE}, resolve : ResolveResults, top : TopOutcomes10,
             rel : Answers(BucketRelatedLists), rtop : {Fail},
             genre : Answers(GenreLists)] :
        w.resolve.id = <<>> => (w.top = Fail /\ w.rel = Fail) }

InitBucketsTwice ==
    /\ pc = "bk_start"
    /\ favorites \in SeqsUpTo(FavPairs, MaxBucketFavs)
    /\ track_pop_max = TrackPopMaxDefault
    /\ per_bucket \in {1, MaxPerBucket}
    /\ min_artists = MaxMinArtists
    /\ regen_nonce \in 0..MaxNonce
    /\ hash_seed = 0
    /\ live = "hidden+artists"
    /\ market \in Markets
    /\ date_key = <<>>
    /\ now = <<>>
    /\ world \in BkWorlds
    /\ twin = [NoTwin EXCEPT !.args = favorites, !.nonce = regen_nonce]
    /\ il_lists = <<>> /\ il_out = <<>>
    /\ StdInputsIdle /\ EngineIdle /\ SideIdle /\ StdIdle /\ BkIdle

\* the caller keeps the first result and calls again with the same arguments;
\* the catalog answers as before, but for the top tracks of the favorite
\* artists (line 682), which now fail
BkAgain ==
    /\ pc = "bk_done"
    /\ world.on
    /\ twin.call = 1
    /\ twin' = [twin EXCEPT !.call = 2, !.buckets = buckets]
    /\ live' = "artists"
    /\ favorites' = twin.args
    /\ rng' = 0 /\ fav_keys' = {} /\ artist_infos' = <<>> /\ idx' = 0
    /\ resp' = NoResp
    /\ per_artist_hidden' = <<>> /\ related_all' = <<>> /\ genres_todo' = <<>>
    /\ may_know' = <<>> /\ discover' = <<>> /\ genre_pool' = <<>>
    /\ per_genre_track_lists' = <<>> /\ per_genre_lists' = <<>>
    /\ buckets' = NoBuckets
    /\ pc' = "bk_start"
    /\ UNCHANGED <<ilVars, sideVars, stdVars, now, world, max_recs, track_pop_max,
                   per_bucket, min_artists, regen_nonce, market, date_key,
                   hash_seed>>

NextBucketsTwice ==
    \/ NextBuckets
    \/ BkAgain

SpecBucketsTwice == InitBucketsTwice /\ [][NextBucketsTwice]_vars

\* C15: of two runs of build_recommendation_buckets with the same inputs and
\* the same catalog answers, except that in one every fetch feeding the hidden
\* gems fails, every other bucket has the same contents in the same order
C15_BucketIndependence ==
    (pc = "bk_done" /\ twin.call = 2) =>
        /\ buckets.may_know = twin.buckets.may_know
        /\ buckets.discover = twin.buckets.discover
        /\ buckets.songs = twin.buckets.songs
        /\ buckets.rising = twin.buckets.rising

-----------------------------------------------------------------------------
(* Properties of the popularity labelling (lines 715-763)                  *)

\* the (name, url) of every row
PairsOf(rows) == [i \in 1..Len(rows) |-> <<rows[i][1], rows[i][2]>>]

IsKnownRow(row) == row[3] >= KnownPopularity
IsDiscoverRow(row) == row[3] < KnownPopularity

\* the labelling has run and the padding of "Discover" has not
JustLabelled == (pc = "ensure" /\ idx = 1) \/ (pc = "trim" /\ resp.step # "ensure")

\* the row the candidate pool holds for one artist of a catalog answer
RowOf(ar) == <<ar.name, _artist_url(ar), IF ar.pop = NoPop THEN 50 ELSE ar.pop>>

\* C21: every gathered candidate with a name and a link is in exactly one of
\* the two lists, "may know" from popularity 60 on and "discover" below it, a
\* missing popularity counting as 50; before de-duplication and truncation the
\* two lists together have as many entries as the candidate pool
C21_LabelPartition ==
    /\ \A ar \in ArtistUniverse \cup Range(PopularArtists) :
          RelatedRows(<<ar>>) =
              IF ar.name # <<>> /\ _artist_url(ar) # <<>> THEN <<RowOf(ar)>> ELSE <<>>
    /\ pc \in {"ensure", "trim"} =>
          LET known == LabelRows(related_all, TRUE)
              disc == LabelRows(related_all, FALSE)
          IN  /\ Len(known) + Len(disc) = Len(related_all)
              /\ known = PairsOf(SelectSeq(related_all, IsKnownRow))
              /\ disc = PairsOf(SelectSeq(related_all, IsDiscoverRow))
              /\ may_know = _dedupe(known)
              /\ JustLabelled => discover = _dedupe(disc)

\* a pool with a candidate on each side of the line, one of them without a
\* popularity, has been labelled
C21_Witness ==
    /\ JustLabelled
    /\ \E i, j \in 1..Len(related_all) :
          /\ related_all[i][3] >= 60
          /\ related_all[j][3] = 50
    /\ may_know # <<>> /\ discover # <<>>

-----------------------------------------------------------------------------
(* Properties of the items returned by both engine functions               *)

\* a (label, url) pair with at least one of the two filled
WellFormedItem(item) == item[1] # <<>> \/ item[2] # <<>>

AllWellFormed(items) == \A i \in 1..Len(items) : WellFormedItem(items[i])

\* C22: every item returned by recommend_from_favorites and every item of the
\* five buckets of build_recommendation_buckets has a label or a url, whatever
\* fields the catalog records lack
C22_ItemsWellFormed ==
    /\ AllWellFormed(recs)
    /\ AllWellFormed(buckets.hidden)
    /\ AllWellFormed(buckets.may_know)
    /\ AllWellFormed(buckets.discover)
    /\ AllWellFormed(buckets.songs)
    /\ AllWellFormed(buckets.rising)

\* a call has returned an item built from a track record without a link: the
\* link is made from the id of the track
C22_Witness ==
    /\ pc = "std_done"
    /\ \E i \in 1..Len(recs) : recs[i][2] = TrackUrl(<<"2">>)

-----------------------------------------------------------------------------
(* Properties of the search cascade (lines 301-329)                        *)

\* the variant whose answer held candidates, 0 when none did
HitAt == IF res.results # <<>> THEN res.k ELSE 0

\* C23: the variants are tried in the fixed order; a variant is tried if and
\* only if every earlier variant gave no candidates, by an empty answer or by
\* a transport failure; the candidates returned are those of the first
\* variant that gave any
C23_CascadeOrder ==
    pc \in {"rs_cascade", "rs_score"} =>
        /\ \A i, j \in 1..Len(res.asked) : i < j => res.asked[i] < res.asked[j]
        /\ pc = "rs_score" =>
              /\ res.tried = IF HitAt = 0 THEN 1..LastVariant ELSE 1..HitAt
              /\ HitAt # 0 => \A k \in res.tried : k <= HitAt

-----------------------------------------------------------------------------
(* Properties of the merge of standard mode (lines 597-605)                *)

\* the interleaved own tracks F and the interleaved related tracks R
FavCombined == _interleave_lists(per_artist_fav)
RelCombined == _interleave_lists(per_artist_related)

\* the merge has run and "mixed" is its result
Merged == pc = "finish" /\ (FavCombined # <<>> \/ RelCombined # <<>>)

\* C24: the merged list is F[0], R[0], F[1], R[1], ... with the element of F
\* first while both lists have elements left, followed by the rest of the
\* longer list in order; its length is |F| + |R|
C24_MergeAlternates ==
    Merged =>
        LET f == FavCombined
            r == RelCombined
            both == Min(Len(f), Len(r))
            rest == IF Len(f) > Len(r) THEN f ELSE r
        IN  /\ Len(mixed) = Len(f) + Len(r)
            /\ \A i \in 1..both : mixed[2 * i - 1] = f[i] /\ mixed[2 * i] = r[i]
            /\ \A i \in (both + 1)..Len(rest) : mixed[both + i] = rest[i]

\* both lists have two elements or more and one is longer than the other
C24_Witness ==
    /\ Merged
    /\ Len(FavCombined) >= 2 /\ Len(RelCombined) >= 2
    /\ Len(FavCombined) # Len(RelCombined)
    /\ FavCombined[1] # RelCombined[1]

-----------------------------------------------------------------------------
(* Properties of the hidden gems (lines 679-705)                           *)

\* the top tracks of the last artist were fetched; resp.picks holds them in
\* the order of the scan
HiddenFetched == pc = "hidden" /\ resp.step = "hidden" /\ resp.ok

HasNameAndLink(tr) == tr.name # <<>> /\ tr.url # <<>>
UnderCeiling(tr) == (IF tr.pop = NoPop THEN DefaultPopularity ELSE tr.pop) <= track_pop_max

\* the item of a track of the artist called aname
HiddenItem(tr, aname) ==
    <<TrackLabel(tr.name, IF tr.artists # <<>> THEN tr.artists[1].name ELSE aname),
      tr.url>>

\* C25: if one or more of the fetched top tracks with a name and a link has a
\* popularity of at most track_pop_max, the artist contributes exactly those
\* tracks; otherwise it contributes every fetched top track with a name and a
\* link
C25_HiddenFilterFallback ==
    HiddenFetched =>
        LET eligible == SelectSeq(resp.picks, HasNameAndLink)
            low == SelectSeq(eligible, UnderCeiling)
            kept == IF low # <<>> THEN low ELSE eligible
            aname == artist_infos[idx - 1].name
            lst == per_artist_hidden[Len(per_artist_hidden)]
        IN  lst = [i \in 1..Len(kept) |-> HiddenItem(kept[i], aname)]

\* no track with a name and a link is under the ceiling, and the artist
\* contributes two such tracks all the same
C25_Witness ==
    /\ HiddenFetched
    /\ SelectSeq(SelectSeq(resp.picks, HasNameAndLink), UnderCeiling) = <<>>
    /\ Len(per_artist_hidden[Len(per_artist_hidden)]) >= 2
    /\ \E i \in 1..Len(resp.picks) : ~HasNameAndLink(resp.picks[i])

-----------------------------------------------------------------------------
(* build_recommendation_buckets with a crowded catalog of genres: the      *)
(* catalog answers during the phase of the songs only.                     *)

InitSongs ==
    /\ pc = "bk_start"
    /\ favorites \in SeqsUpTo(FavPairs, MaxBucketFavs)
    /\ track_pop_max = TrackPopMaxDefault
    /\ per_bucket \in {1, MaxPerBucket}
    /\ min_artists \in {0, MaxMinArtists}
    /\ regen_nonce = 0
    /\ hash_seed = 0
    /\ live = "crowded"
    /\ market \in Markets
    /\ date_key = <<>>
    /\ CallIdle
    /\ il_lists = <<>> /\ il_out = <<>>
    /\ StdInputsIdle /\ EngineIdle /\ SideIdle /\ StdIdle /\ BkIdle

SpecSongs == InitSongs /\ [][NextBuckets]_vars

\* C26: the candidate list built for a genre never holds more than 8 tracks
C26_GenreTrackCap ==
    \A i \in 1..Len(per_genre_track_lists) :
        Len(per_genre_track_lists[i]) <= GenreTrackBreak

-----------------------------------------------------------------------------
(* Properties of _ensure_min_discover (lines 766-791)                      *)

\* the names of a list of (name, url) items before position i, in lower case
LowerNamesBefore(items, i) == {Lower(items[j][1]) : j \in 1..(i - 1)}

\* the artist names of the favorites, in lower case
LowerInputArtists == {Lower(favorites[k][2]) : k \in 1..Len(favorites)}

\* one step of the padding: discover' is discover followed by new entries
PaddingStep ==
    /\ Len(discover) < MinDiscover
    /\ Len(discover') <= MinDiscover
    /\ Len(discover') >= Len(discover)
    /\ SubSeq(discover', 1, Len(discover)) = discover
    /\ may_know' = may_know
    /\ \A i \in (Len(discover) + 1)..Len(discover') :
          /\ Lower(discover'[i][1]) \notin LowerNamesBefore(discover', i)
          /\ Lower(discover'[i][1]) \notin LowerNamesBefore(may_know, Len(may_know) + 1)
          /\ Lower(discover'[i][1]) \notin LowerInputArtists

\* C27: the padding of Discover runs only while Discover has fewer than 2
\* entries; it keeps the entries and their order, appends only artists whose
\* lower-case name is neither in Discover, nor in Artists you may know, nor an
\* input artist name, and stops when Discover has 2 entries
C27_DiscoverPadding == [][pc = "ensure" => PaddingStep]_vars

\* the padding has brought Discover from fewer than 2 entries to 2
C27_Witness ==
    /\ pc = "trim" /\ resp.step = "ensure" /\ resp.ok
    /\ Len(discover) = MinDiscover
    /\ favorites # <<>>

-----------------------------------------------------------------------------
(* Properties of the token cache (lines 186-203)                           *)

\* the call finds no token, or the time has reached the stored expiry
TokenDue == client.token = 0 \/ client.now >= client.expires_at

\* a step of _ensure_token: the token is requested exactly when it is due; a
\* token that is not due is kept with its expiry; a fetched token expires 95%
\* of expires_in after the fetch
EnsureStep ==
    /\ (client'.fetched = client.fetched + 1) <=> TokenDue
    /\ ~TokenDue => /\ client'.token = client.token
                    /\ client'.expires_at = client.expires_at
                    /\ client'.fetched = client.fetched
    /\ client'.token # client.token =>
          client'.expires_at * 100 =
              100 * client.now
              + (IF client'.payload = 0 THEN 3600 ELSE client'.payload) * 95
    /\ pc' = "cl_send" => client'.bearer = client'.token /\ client'.token # 0

\* C28: a token request is issued exactly when no token is cached or the time
\* has reached the stored expiry, which is the fetch time plus 95% of
\* expires_in; a call before the expiry issues no token request, and the API
\* request carries the token fetched last
C28_TokenCaching ==
    [][/\ pc = "cl_ensure" => EnsureStep
       /\ pc = "cl_send" => client'.sent = client.sent + 1
                            /\ client.bearer = client.token
                            /\ client'.token = client.token]_vars

\* the third call is made before the expiry of the second token and sends its
\* request without a token request
C28_Witness ==
    /\ pc = "cl_idle" /\ client.calls = 3 /\ client.token = 2
    /\ client.fetched = 0 /\ client.sent = 1 /\ client.bearer = 2
    /\ client.now < client.expires_at

-----------------------------------------------------------------------------
(* The regenerate counter of the page (lines 920-929, 964-1019).  The       *)
(* script runs from top to bottom on every interaction; st.session_state   *)
(* lives as long as the session.  ui.session is the session state as a set *)
(* of (key, value) pairs, ui.click the button of this run, ui.before the   *)
(* session state the run started with, ui.passed the regen_nonce arguments *)
(* of the engine calls of this run.                                        *)

MaxRuns == 4        \* script runs of one session

Clicks == {"none", "recommend", "regenerate"}

HasCounter(session) == \E n \in 0..MaxRuns : <<"regen_nonce", n>> \in session
Counter(session) == CHOOSE n \in 0..MaxRuns : <<"regen_nonce", n>> \in session

\* mutant: every button counts
BumpAlways(n, regenerate) == n + 1

\* lines 928-929
Bump(n, regenerate) == IF regenerate THEN n + 1 ELSE n

InitRegen ==
    /\ pc = "rg_wait"
    /\ ui = [session |-> {}, click |-> "none", before |-> {}, passed |-> <<>>,
             runs |-> 0]
    /\ res = <<>> /\ client = <<>> /\ shuf = <<>>
    /\ CoreIdle

\* lines 921-929: a run of the script up to the buttons
RgButtons ==
    /\ pc = "rg_wait"
    /\ ui.runs < MaxRuns
    /\ \E click \in Clicks :
          LET n0 == IF HasCounter(ui.session) THEN Counter(ui.session) ELSE 0
              n1 == Bump(n0, click = "regenerate")
          IN  /\ ui' = [session |-> {<<"regen_nonce", n1>>}, click |-> click,
                        before |-> ui.session, passed |-> <<>>,
                        runs |-> ui.runs + 1]
              /\ pc' = IF click = "none" THEN "rg_wait" ELSE "rg_checks"
    /\ UNCHANGED <<engineVars, res, client, shuf>>

\* lines 964-974: the credentials, the favorites and the genres of the theme;
\* st.stop() or an exception ends the run
RgChecks ==
    /\ pc = "rg_checks"
    /\ \E creds \in BOOLEAN, valid \in BOOLEAN, genres_returned \in BOOLEAN :
          pc' = IF creds /\ valid /\ genres_returned THEN "rg_std" ELSE "rg_wait"
    /\ UNCHANGED <<engineVars, sideVars>>

\* lines 993-997: the call of recommend_from_favorites, which returns or raises
RgStandard ==
    /\ pc = "rg_std"
    /\ regen_nonce' = Counter(ui.session)
    /\ ui' = [ui EXCEPT !.passed = Append(@, regen_nonce')]
    /\ \E returned \in BOOLEAN : pc' = IF returned THEN "rg_niche" ELSE "rg_wait"
    /\ UNCHANGED <<ilVars, max_recs, track_pop_max, per_bucket, min_artists, market,
                   date_key, hash_seed, live, rng, favorites, fav_keys,
                   artist_infos, idx, stdVars, bkVars, resp, callVars,
                   res, client, shuf>>

\* lines 1009-1019: the call of build_recommendation_buckets
RgNiche ==
    /\ pc = "rg_niche"
    /\ regen_nonce' = Counter(ui.session)
    /\ ui' = [ui EXCEPT !.passed = Append(@, regen_nonce')]
    /\ pc' = "rg_wait"
    /\ UNCHANGED <<ilVars, max_recs, track_pop_max, per_bucket, min_artists, market,
                   date_key, hash_seed, live, rng, favorites, fav_keys,
                   artist_infos, idx, stdVars, bkVars, resp, callVars,
                   res, client, shuf>>

NextRegen == RgButtons \/ RgChecks \/ RgStandard \/ RgNiche

SpecRegen == InitRegen /\ [][NextRegen]_vars

\* the counter the run started with; a new session has none and starts at 0
CounterBefore(session) == IF HasCounter(session) THEN Counter(session) ELSE 0

\* a step of the page
RegenStep ==
    /\ HasCounter(ui'.session)
    /\ Counter(ui'.session) >= CounterBefore(ui.session)
    /\ pc = "rg_wait" =>
          Counter(ui'.session) =
              CounterBefore(ui.session) + (IF ui'.click = "regenerate" THEN 1 ELSE 0)
    /\ pc # "rg_wait" => ui'.session = ui.session
    /\ pc \in {"rg_std", "rg_niche"} =>
          /\ regen_nonce' = Counter(ui.session)
          /\ \A i \in 1..Len(ui'.passed) : ui'.passed[i] = Counter(ui.session)
          /\ ui.click = "regenerate" => regen_nonce' = CounterBefore(ui.before) + 1
          /\ ui.click = "recommend" => regen_nonce' = CounterBefore(ui.before)

\* C29: the counter starts at 0, grows by exactly 1 on a Regenerate action, is
\* left as it is by a Recommend action and by the two engine calls, never
\* decreases, and both engine calls of a run get the same counter, which is
\* the incremented one after a Regenerate action
C29_RegenerateCounter == [][RegenStep]_vars

\* the second Regenerate action of a session has passed 2 to both engines
C29_Witness ==
    /\ pc = "rg_wait" /\ ui.click = "regenerate"
    /\ ui.passed = <<2, 2>> /\ regen_nonce = 2
    /\ ui.session = {<<"regen_nonce", 2>>}

-----------------------------------------------------------------------------
(* The lead artists shown in "Songs from your genres" (lines 811-850)      *)

\* is the label the label of a track, "title -- artist"
IsTrackLabel(label) == \E i \in 1..Len(label) : label[i] = "--"

\* the artist shown in the label of a track: what follows the last separator
DisplayedLead(label) ==
    LET k == CHOOSE i \in 1..Len(label) :
                 /\ label[i] = "--"
                 /\ \A j \in (i + 1)..Len(label) : label[j] # "--"
    IN  SubSeq(label, k + 2, Len(label))

\* C30: no item of "Songs from your genres (not your input artists)" is a
\* track whose displayed lead artist is, case-insensitively, the artist of an
\* input favorite
C30_SongsNotByInputArtists ==
    \A i \in 1..Len(buckets.songs) :
        IsTrackLabel(buckets.songs[i][1]) =>
            Lower(DisplayedLead(buckets.songs[i][1]))
                \notin {Lower(favorites[k][2]) : k \in 1..Len(favorites)}

====
